---- MODULE Spec2Model ----
(***************************************************************************)
(* A model of lottie-tools.  Of the web editor: the zustand store (project, *)
(* keyframes), the Timeline handlers that drive the current time, the      *)
(* PlaybackEngine, the interpolation, the SVG import and the               *)
(* LottieExporter.  Of the command-line tool: convertLottieToGif.          *)
(*                                                                         *)
(* Times are exact rationals: a time value n stands for n / TimeDen        *)
(* seconds.  Numbers (keyframe values, transform fields) are integers.     *)
(* A keyframe value is tagged with its JavaScript type, because the        *)
(* exporter branches on typeof value.                                      *)
(***************************************************************************)
EXTENDS Integers, Sequences, FiniteSets, TLC

\* ------------------------------------------------------------------ bounds

\* Number of keyframe identifiers addKeyframe may generate in one run.
MaxIds == 2

\* Time resolution: a time value n stands for n / TimeDen seconds.  It is the
\* least common multiple of the frame rates in FpsValues, so that one frame
\* (1 / fps seconds) is a whole number of time units.
TimeDen == 2 * 3

FpsValues == {2, 3}

\* ------------------------------------------------------------- the values

\* The store's project when there is none.
Null == [null |-> TRUE]

\* The value of a field an object does not have.
Undefined == "undefined"

Num(n) == [type |-> "number", n |-> n]

Str(s) == [type |-> "string", s |-> s]

IsNumber(v) == v.type = "number"

LayerIds == {"layer1", "layer2"}

\* The properties the Spec runs animate (a sample of AnimatableProperty).
StoreProperties == {"x", "y"}

StoreValues == {Num(100), Num(200)}

\* The times (in 1/TimeDen seconds) the Spec runs hand to setCurrentTime.
StoreTimes == {0, 3}

AnimatableProperty == {"x", "y", "scaleX", "scaleY", "rotation", "opacity"}

\* ------------------------------------------------------------ the layers

Transform(x, y, rotation, scaleX, scaleY) ==
  [x |-> x, y |-> y, rotation |-> rotation, scaleX |-> scaleX, scaleY |-> scaleY]

Style(fill, stroke, strokeWidth, opacity) ==
  [fill |-> fill, stroke |-> stroke, strokeWidth |-> strokeWidth, opacity |-> opacity]

RectElement(x, y, width, height, transform, style) ==
  [type |-> "rect", x |-> x, y |-> y, width |-> width, height |-> height,
   transform |-> transform, style |-> style]

Layer(id, name, element) ==
  [id |-> id, name |-> name, element |-> element, visible |-> TRUE, locked |-> FALSE]

CircleElement(cx, cy, r, transform, style) ==
  [type |-> "circle", cx |-> cx, cy |-> cy, r |-> r,
   transform |-> transform, style |-> style]

\* The two layers of the runs: a rectangle, and a circle whose style has no
\* opacity.
StoreLayers ==
  << Layer("layer1", "Rectangle Layer",
           RectElement(100, 100, 200, 150, Transform(10, 20, 0, 1, 1),
                       Style("#ff0000", "none", 1, 1))),
     Layer("layer2", "Circle Layer",
           CircleElement(50, 60, 25, Transform(30, 40, 90, 2, 3),
                         [fill |-> "#00ff00", stroke |-> "#1a2b3c", strokeWidth |-> 2])) >>

\* --------------------------------------------------------------- the state

VARIABLES
  project,   \* useStore's project: a ProjectState record, or Null
  nextId,    \* the next identifier Date.now()/Math.random() will produce
  engine,    \* the PlaybackEngine engineRef.current points to, or Null
  loop,      \* the Timeline's loop state
  timers,    \* the pending setTimeout(..., 0) callbacks, oldest first
  fileImport, \* the FileImport component: message, isProcessing, pending reads
  conversion, \* the convertLottieToGif call under way, or Null
  last       \* the last operation, its arguments and what it returned

vars == <<project, nextId, engine, loop, timers, fileImport, conversion, last>>

timeline == <<engine, loop, timers>>

\* The FileImport component as it is mounted: no message, nothing being read.
FileImportState ==
  [message |-> Null, isProcessing |-> FALSE, reads |-> <<>>]

\* The state of the other components, which the actions of one leave alone.
others == <<fileImport, conversion>>

ProjectState(name, width, height, fps, duration, currentTime, layers, keyframes) ==
  [name |-> name, width |-> width, height |-> height, fps |-> fps,
   duration |-> duration, currentTime |-> currentTime, isPlaying |-> FALSE,
   layers |-> layers, selectedLayerId |-> Undefined, keyframes |-> keyframes]

\* A keyframe as addKeyframe builds it: the Keyframe fields, without layerId.
Keyframe(id, time, property, value, easing) ==
  [id |-> id, time |-> time, property |-> property, value |-> value,
   easing |-> easing, layerId |-> Undefined]

\* ------------------------------------------------- the store's operations
\* Each takes the project p of the store and gives the project it sets.

\* { ...a, ...b }: the fields b has replace those of a.
Merge(a, b) ==
  [f \in DOMAIN a |-> IF f \in DOMAIN b THEN b[f] ELSE a[f]]

updateProjectSettings(p, settings) ==
  IF p # Null THEN Merge(p, settings) ELSE Null

setCurrentTime(p, time) ==
  IF p # Null THEN [p EXCEPT !.currentTime = time] ELSE Null

setIsPlaying(p, playing) ==
  IF p # Null THEN [p EXCEPT !.isPlaying = playing] ELSE Null

toggleLayerVisibility(p, layerId) ==
  IF p = Null THEN p
  ELSE LET layers == [i \in 1..Len(p.layers) |->
                        IF p.layers[i].id = layerId
                        THEN [p.layers[i] EXCEPT !.visible = ~p.layers[i].visible]
                        ELSE p.layers[i]]
       IN [p EXCEPT !.layers = layers]

toggleLayerLock(p, layerId) ==
  IF p = Null THEN p
  ELSE LET layers == [i \in 1..Len(p.layers) |->
                        IF p.layers[i].id = layerId
                        THEN [p.layers[i] EXCEPT !.locked = ~p.layers[i].locked]
                        ELSE p.layers[i]]
       IN [p EXCEPT !.layers = layers]

\* selectLayer, had it started from the store's initial project when there is
\* none.
selectLayerOnInitial(p, layerId) ==
  [(IF p # Null THEN p
    ELSE ProjectState("Untitled Project", 800, 600, 2, 5 * TimeDen, 0, <<>>, <<>>))
   EXCEPT !.selectedLayerId = layerId]

\* layerId is Undefined when the selection is cleared.
selectLayer(p, layerId) ==
  IF p # Null THEN [p EXCEPT !.selectedLayerId = layerId] ELSE Null

\* Array.prototype.findIndex on the keyframes, 1-based; 0 stands for -1.
ExistingIndex(keyframes, time, property, layerId) ==
  LET hits == {i \in 1..Len(keyframes) :
                 /\ keyframes[i].time = time
                 /\ keyframes[i].property = property
                 /\ keyframes[i].layerId = layerId}
  IN IF hits = {} THEN 0 ELSE CHOOSE i \in hits : \A j \in hits : i <= j

\* addKeyframe, had it given the replacing keyframe its own new identifier.
addKeyframeNewId(p, id, layerId, property, value, easing) ==
  IF p = Null THEN p
  ELSE LET newKeyframe == Keyframe(id, p.currentTime, property, value, easing)
           existingIndex ==
             ExistingIndex(p.keyframes, newKeyframe.time, property, layerId)
           keyframes ==
             IF existingIndex > 0
             THEN [i \in 1..Len(p.keyframes) |->
                     IF i = existingIndex THEN newKeyframe ELSE p.keyframes[i]]
             ELSE Append(p.keyframes, [newKeyframe EXCEPT !.layerId = layerId])
       IN [p EXCEPT !.keyframes = keyframes]

\* id is the identifier Date.now() and Math.random() give the new keyframe.
addKeyframe(p, id, layerId, property, value, easing) ==
  IF p = Null THEN p
  ELSE LET newKeyframe == Keyframe(id, p.currentTime, property, value, easing)
           existingIndex ==
             ExistingIndex(p.keyframes, newKeyframe.time, property, layerId)
           keyframes ==
             IF existingIndex > 0
             THEN [i \in 1..Len(p.keyframes) |->
                     IF i = existingIndex
                     THEN [newKeyframe EXCEPT !.id = p.keyframes[i].id]
                     ELSE p.keyframes[i]]
             ELSE Append(p.keyframes, [newKeyframe EXCEPT !.layerId = layerId])
       IN [p EXCEPT !.keyframes = keyframes]

deleteKeyframe(p, keyframeId) ==
  IF p = Null THEN p
  ELSE [p EXCEPT !.keyframes = SelectSeq(p.keyframes, LAMBDA kf : kf.id # keyframeId)]

\* updateKeyframe, had it merged the updates into every keyframe.
updateKeyframeEvery(p, keyframeId, updates) ==
  IF p = Null THEN p
  ELSE [p EXCEPT !.keyframes =
          [i \in 1..Len(p.keyframes) |-> Merge(p.keyframes[i], updates)]]

updateKeyframe(p, keyframeId, updates) ==
  IF p = Null THEN p
  ELSE [p EXCEPT !.keyframes =
          [i \in 1..Len(p.keyframes) |->
             IF p.keyframes[i].id = keyframeId
             THEN Merge(p.keyframes[i], updates)
             ELSE p.keyframes[i]]]

\* Array.prototype.sort with (a, b) => a.time - b.time: a stable sort by
\* ascending time, here by insertion from the left.
RECURSIVE SortByTime(_)
SortByTime(s) ==
  IF Len(s) <= 1 THEN s
  ELSE LET front == SortByTime(SubSeq(s, 1, Len(s) - 1))
           x == s[Len(s)]
           before == SelectSeq(front, LAMBDA kf : kf.time <= x.time)
           after == SelectSeq(front, LAMBDA kf : kf.time > x.time)
       IN before \o <<x>> \o after

\* getKeyframesForLayer, had it left out the sort.
getKeyframesForLayerUnsorted(p, layerId, property) ==
  IF p = Null THEN <<>>
  ELSE SelectSeq(p.keyframes, LAMBDA kf :
         kf.layerId = layerId /\ (property = Undefined \/ kf.property = property))

\* property is Undefined when the caller gives none.
getKeyframesForLayer(p, layerId, property) ==
  IF p = Null THEN <<>>
  ELSE SortByTime(SelectSeq(p.keyframes, LAMBDA kf :
         LET layerMatches == kf.layerId = layerId
             propertyMatches == IF property # Undefined
                                THEN kf.property = property ELSE TRUE
         IN layerMatches /\ propertyMatches))

\* ------------------------------------------- the store driven on its own

\* The identifier of the keyframe addKeyframe is about to replace, 0 if none.
ReplacedId(p, layerId, property) ==
  LET existingIndex == ExistingIndex(p.keyframes, p.currentTime, property, layerId)
  IN IF existingIndex > 0 THEN p.keyframes[existingIndex].id ELSE 0

\* How many addKeyframe calls in a row, this one included, were made for the
\* same layer and property with no other operation in between.
RunOf(layerId, property) ==
  IF last.op = "addKeyframe" /\ last.layerId = layerId /\ last.property = property
  THEN last.run + 1 ELSE 1

HasId(keyframes, keyframeId) ==
  \E i \in 1..Len(keyframes) : keyframes[i].id = keyframeId

\* Identifiers a caller may name: those generated so far and one never used.
KeyframeIds == 1..(MaxIds + 1)

\* The partial keyframes updateKeyframe is handed in the Spec runs.
StoreUpdates ==
  {[value |-> Num(200)], [time |-> 0], [property |-> "y"]}

SetCurrentTime ==
  \E time \in StoreTimes :
    /\ project' = setCurrentTime(project, time)
    /\ last' = [op |-> "setCurrentTime", time |-> time]
    /\ UNCHANGED <<others, nextId, timeline>>

AddKeyframe ==
  \E layerId \in LayerIds, property \in StoreProperties, value \in StoreValues :
    /\ nextId <= MaxIds
    /\ project' = addKeyframe(project, nextId, layerId, property, value, "linear")
    /\ nextId' = nextId + 1
    /\ last' = [op |-> "addKeyframe", layerId |-> layerId, property |-> property,
                value |-> value, easing |-> "linear", newId |-> nextId,
                existingIndex |-> ExistingIndex(project.keyframes, project.currentTime,
                                                property, layerId),
                replacedId |-> ReplacedId(project, layerId, property),
                run |-> RunOf(layerId, property)]
    /\ UNCHANGED <<others, timeline>>

DeleteKeyframe ==
  \E keyframeId \in KeyframeIds :
    /\ project' = deleteKeyframe(project, keyframeId)
    /\ last' = [op |-> "deleteKeyframe", keyframeId |-> keyframeId,
                hit |-> HasId(project.keyframes, keyframeId)]
    /\ UNCHANGED <<others, nextId, timeline>>

UpdateKeyframe ==
  \E keyframeId \in KeyframeIds, updates \in StoreUpdates :
    /\ project' = updateKeyframe(project, keyframeId, updates)
    /\ last' = [op |-> "updateKeyframe", keyframeId |-> keyframeId,
                updates |-> updates, hit |-> HasId(project.keyframes, keyframeId)]
    /\ UNCHANGED <<others, nextId, timeline>>

GetKeyframesForLayer ==
  \E layerId \in LayerIds \cup {"non-existent"}, property \in {"x", Undefined} :
    /\ last' = [op |-> "getKeyframesForLayer", layerId |-> layerId,
                property |-> property, before |-> project,
                result |-> getKeyframesForLayer(project, layerId, property)]
    /\ UNCHANGED <<others, project, nextId, timeline>>

\* The project the Spec runs start from: the store's initial project with the
\* layers of an imported drawing, as setProject leaves it.
Init ==
  /\ project = ProjectState("Untitled Project", 800, 600, 2, 5 * TimeDen, 0,
                            StoreLayers, <<>>)
  /\ nextId = 1
  /\ engine = Null
  /\ loop = FALSE
  /\ timers = <<>>
  /\ fileImport = FileImportState
  /\ conversion = Null
  /\ last = [op |-> "init"]

Next ==
  \/ SetCurrentTime
  \/ AddKeyframe
  \/ DeleteKeyframe
  \/ UpdateKeyframe
  \/ GetKeyframesForLayer

Spec == Init /\ [][Next]_vars

\* ------------------------------------------------------- the LottieExporter

\* Math.ceil(a / b) and Math.round(a / b) for b > 0; Math.round takes a half up.
CeilDiv(a, b) == -((-a) \div b)

RoundDiv(a, b) == (2 * a + b) \div (2 * b)

CeilFramesFloor(seconds, fps) == (seconds * fps) \div TimeDen

\* Math.ceil(seconds * fps), the seconds given in 1/TimeDen.
CeilFrames(seconds, fps) == CeilDiv(seconds * fps, TimeDen)

RoundFramesFloor(seconds, fps) == (seconds * fps) \div TimeDen

\* Math.round(seconds * fps), the seconds given in 1/TimeDen.
RoundFrames(seconds, fps) == RoundDiv(seconds * fps, TimeDen)

\* What Array.prototype.find returns when no element passes the test.
NotFound == [undefined |-> TRUE]

\* keyframes.find(kf => kf.time === time): the first keyframe at the time.
FindAtTime(keyframes, time) ==
  LET hits == {i \in 1..Len(keyframes) : keyframes[i].time = time}
  IN IF hits = {} THEN NotFound
     ELSE keyframes[CHOOSE i \in hits : \A j \in hits : i <= j]

\* Array.from(new Set(times)).sort((a, b) => a - b): the distinct numbers of
\* times, ascending.
RECURSIVE SortedTimes(_)
SortedTimes(times) ==
  IF times = {} THEN <<>>
  ELSE LET least == CHOOSE t \in times : \A u \in times : t <= u
       IN <<least>> \o SortedTimes(times \ {least})

Times(keyframes) == {keyframes[i].time : i \in 1..Len(keyframes)}

ValueOrZero(kf, default) ==
  IF kf # NotFound THEN (IF IsNumber(kf.value) THEN kf.value.n ELSE 0)
  ELSE 0

\* xKf ? (typeof xKf.value === 'number' ? xKf.value : default) : default
ValueOr(kf, default) ==
  IF kf # NotFound THEN (IF IsNumber(kf.value) THEN kf.value.n ELSE default)
  ELSE default

convertPositionProperty(defaultX, defaultY, keyframes, xProp, yProp, fps) ==
  LET xKeyframes == SelectSeq(keyframes, LAMBDA kf : kf.property = xProp)
      yKeyframes == SelectSeq(keyframes, LAMBDA kf : kf.property = yProp)
      sortedTimes == SortedTimes(Times(xKeyframes) \cup Times(yKeyframes))
      Entry(time) ==
        LET xKf == FindAtTime(xKeyframes, time)
            yKf == FindAtTime(yKeyframes, time)
            xValue == ValueOr(xKf, defaultX)
            yValue == ValueOr(yKf, defaultY)
        IN [t |-> RoundFrames(time, fps),
            s |-> <<xValue, yValue>>,
            e |-> <<xValue, yValue>>]
  IN IF Len(xKeyframes) = 0 /\ Len(yKeyframes) = 0
     THEN [a |-> 0, k |-> <<defaultX, defaultY>>]
     ELSE [a |-> 1, k |-> [j \in 1..Len(sortedTimes) |-> Entry(sortedTimes[j])]]

convertScaleProperty(defaultScaleX, defaultScaleY, keyframes, fps) ==
  LET scaleXKfs == SelectSeq(keyframes, LAMBDA kf : kf.property = "scaleX")
      scaleYKfs == SelectSeq(keyframes, LAMBDA kf : kf.property = "scaleY")
      sortedTimes == SortedTimes(Times(scaleXKfs) \cup Times(scaleYKfs))
      Entry(time) ==
        LET xKf == FindAtTime(scaleXKfs, time)
            yKf == FindAtTime(scaleYKfs, time)
            xValue == ValueOr(xKf, defaultScaleX)
            yValue == ValueOr(yKf, defaultScaleY)
        IN [t |-> RoundFrames(time, fps),
            s |-> <<xValue * 100, yValue * 100>>,
            e |-> <<xValue * 100, yValue * 100>>]
  IN IF Len(scaleXKfs) = 0 /\ Len(scaleYKfs) = 0
     THEN [a |-> 0, k |-> <<defaultScaleX * 100, defaultScaleY * 100>>]
     ELSE [a |-> 1, k |-> [j \in 1..Len(sortedTimes) |-> Entry(sortedTimes[j])]]

convertRotationProperty(defaultRotation, keyframes, fps) ==
  LET rotationKfs == SelectSeq(keyframes, LAMBDA kf : kf.property = "rotation")
      Entry(kf) ==
        [t |-> RoundFrames(kf.time, fps),
         s |-> <<IF IsNumber(kf.value) THEN kf.value.n ELSE defaultRotation>>,
         e |-> <<IF IsNumber(kf.value) THEN kf.value.n ELSE defaultRotation>>]
  IN IF Len(rotationKfs) = 0
     THEN [a |-> 0, k |-> defaultRotation]
     ELSE [a |-> 1, k |-> [j \in 1..Len(rotationKfs) |-> Entry(rotationKfs[j])]]

convertOpacityPropertyRaw(defaultOpacity, keyframes, fps) ==
  LET opacityKfs == SelectSeq(keyframes, LAMBDA kf : kf.property = "opacity")
      Entry(kf) ==
        [t |-> RoundFrames(kf.time, fps),
         s |-> <<IF IsNumber(kf.value) THEN kf.value.n ELSE defaultOpacity>>,
         e |-> <<IF IsNumber(kf.value) THEN kf.value.n ELSE defaultOpacity>>]
  IN IF Len(opacityKfs) = 0
     THEN [a |-> 0, k |-> defaultOpacity * 100]
     ELSE [a |-> 1, k |-> [j \in 1..Len(opacityKfs) |-> Entry(opacityKfs[j])]]

convertOpacityProperty(defaultOpacity, keyframes, fps) ==
  LET opacityKfs == SelectSeq(keyframes, LAMBDA kf : kf.property = "opacity")
      Entry(kf) ==
        [t |-> RoundFrames(kf.time, fps),
         s |-> <<IF IsNumber(kf.value) THEN kf.value.n * 100
                 ELSE defaultOpacity * 100>>,
         e |-> <<IF IsNumber(kf.value) THEN kf.value.n * 100
                 ELSE defaultOpacity * 100>>]
  IN IF Len(opacityKfs) = 0
     THEN [a |-> 0, k |-> defaultOpacity * 100]
     ELSE [a |-> 1, k |-> [j \in 1..Len(opacityKfs) |-> Entry(opacityKfs[j])]]

convertTransform(layer, keyframes, fps) ==
  LET transform == layer.element.transform
      style == layer.element.style
  IN [p |-> convertPositionProperty(transform.x, transform.y, keyframes, "x", "y", fps),
      a |-> [a |-> 0, k |-> <<0, 0>>],
      s |-> convertScaleProperty(transform.scaleX, transform.scaleY, keyframes, fps),
      r |-> convertRotationProperty(transform.rotation, keyframes, fps),
      o |-> convertOpacityProperty(
              IF "opacity" \in DOMAIN style THEN style.opacity ELSE 1, keyframes, fps)]

\* The colour strings of the model that the pattern of hexToRgb matches, each
\* with the values of its six hexadecimal digits.
HexDigitsOf ==
  ("#ff0000" :> <<15, 15, 0, 0, 0, 0>>) @@ ("#00ff00" :> <<0, 0, 15, 15, 0, 0>>)
    @@ ("#000000" :> <<0, 0, 0, 0, 0, 0>>) @@ ("#1a2b3c" :> <<1, 10, 2, 11, 3, 12>>)

\* parseInt(result[k], 16) for the two digits at positions i and i + 1.
ParseHexPair(digits, i) == 16 * digits[i] + digits[i + 1]

hexToRgb(hex) ==
  IF hex \in DOMAIN HexDigitsOf
  THEN LET result == HexDigitsOf[hex]
       IN [r |-> ParseHexPair(result, 1), g |-> ParseHexPair(result, 3),
           b |-> ParseHexPair(result, 5)]
  ELSE [r |-> 0, g |-> 0, b |-> 0]

\* n / d, kept as the fraction.
Frac(n, d) == [num |-> n, den |-> d]

\* The items of the group: geometry, fill, stroke, transform.
convertShapes(layer, keyframes, fps) ==
  LET element == layer.element
      geometry ==
        IF element.type = "rect"
        THEN <<[ty |-> "rc", nm |-> "Rectangle",
                p |-> [a |-> 0, k |-> <<Frac(2 * element.x + element.width, 2),
                                        Frac(2 * element.y + element.height, 2)>>],
                s |-> [a |-> 0, k |-> <<element.width, element.height>>],
                r |-> [a |-> 0, k |-> 0]]>>
        ELSE IF element.type = "ellipse"
        THEN <<[ty |-> "el", nm |-> "Ellipse",
                p |-> [a |-> 0, k |-> <<element.cx, element.cy>>],
                s |-> [a |-> 0, k |-> <<element.rx * 2, element.ry * 2>>]]>>
        ELSE IF element.type = "circle"
        THEN <<[ty |-> "el", nm |-> "Circle",
                p |-> [a |-> 0, k |-> <<element.cx, element.cy>>],
                s |-> [a |-> 0, k |-> <<element.r * 2, element.r * 2>>]]>>
        ELSE <<>>
      fill ==
        IF "fill" \in DOMAIN element.style /\ element.style.fill # "none"
        THEN LET fillColor == hexToRgb(element.style.fill)
             IN <<[ty |-> "fl", nm |-> "Fill",
                   c |-> [a |-> 0, k |-> <<Frac(fillColor.r, 255), Frac(fillColor.g, 255),
                                           Frac(fillColor.b, 255), 1>>],
                   o |-> [a |-> 0, k |-> 100]]>>
        ELSE <<>>
      stroke ==
        IF "stroke" \in DOMAIN element.style /\ element.style.stroke # "none"
        THEN LET strokeColor == hexToRgb(element.style.stroke)
             IN <<[ty |-> "st", nm |-> "Stroke",
                   c |-> [a |-> 0, k |-> <<Frac(strokeColor.r, 255),
                                           Frac(strokeColor.g, 255),
                                           Frac(strokeColor.b, 255), 1>>],
                   o |-> [a |-> 0, k |-> 100],
                   w |-> [a |-> 0, k |-> IF /\ "strokeWidth" \in DOMAIN element.style
                                            /\ element.style.strokeWidth # 0
                                         THEN element.style.strokeWidth ELSE 1],
                   lc |-> 2, lj |-> 2]>>
        ELSE <<>>
      transformShape ==
        [ty |-> "tr", nm |-> "Transform",
         p |-> [a |-> 0, k |-> <<0, 0>>], a |-> [a |-> 0, k |-> <<0, 0>>],
         s |-> [a |-> 0, k |-> <<100, 100>>], r |-> [a |-> 0, k |-> 0],
         o |-> [a |-> 0, k |-> 100]]
      groupItems == geometry \o fill \o stroke \o <<transformShape>>
  IN <<[ty |-> "gr", nm |-> "Group", it |-> groupItems, np |-> Len(groupItems) - 1]>>

convertLayerAllKeyframes(layer, index, allKeyframes, fps, frameCount) ==
  [ty |-> 4, nm |-> layer.name, ind |-> index + 1, ip |-> 0, op |-> frameCount,
   st |-> 0,
   ks |-> convertTransform(layer, allKeyframes, fps),
   shapes |-> convertShapes(layer, allKeyframes, fps)]

\* index is the layer's position in project.layers, counted from 0.
convertLayer(layer, index, allKeyframes, fps, frameCount) ==
  LET layerKeyframes == SelectSeq(allKeyframes, LAMBDA kf : kf.layerId = layer.id)
  IN [ty |-> 4, nm |-> layer.name, ind |-> index + 1, ip |-> 0, op |-> frameCount,
      st |-> 0,
      ks |-> convertTransform(layer, layerKeyframes, fps),
      shapes |-> convertShapes(layer, layerKeyframes, fps)]

exportToLottie(p) ==
  LET frameCount == CeilFrames(p.duration, p.fps)
  IN [v |-> "5.5.7", fr |-> p.fps, ip |-> 0, op |-> frameCount,
      w |-> p.width, h |-> p.height, nm |-> p.name, ddd |-> 0, assets |-> <<>>,
      layers |-> [i \in 1..Len(p.layers) |->
                    convertLayer(p.layers[i], i - 1, p.keyframes, p.fps, frameCount)]]

\* ----------------------------------------------- the exporter on its own

\* Longest keyframe list the SpecExport runs export.
MaxExportKeyframes == 2

\* The times (in 1/TimeDen seconds) of the exported keyframes: with them
\* time * fps is whole, a half, a third and two thirds.
ExportTimes == {0, 1, 4}

\* The durations (in 1/TimeDen seconds) of the exported projects: with them
\* duration * fps is whole and fractional.
ExportDurations == {7, 12}

\* The i-th keyframe of an exported project: its value is a number that no
\* other keyframe and no static transform field of StoreLayers has; an
\* opacity is i, the value the property editor stores for i * 100 percent.
ExportKeyframe(i, layerId, property, time) ==
  [Keyframe(i, time, property, Num(IF property = "opacity" THEN i ELSE 10 + i), "linear")
     EXCEPT !.layerId = layerId]

EllipseElement(cx, cy, rx, ry, transform, style) ==
  [type |-> "ellipse", cx |-> cx, cy |-> cy, rx |-> rx, ry |-> ry,
   transform |-> transform, style |-> style]

PathElement(d, transform, style) ==
  [type |-> "path", d |-> d, transform |-> transform, style |-> style]

\* The layers of the exported projects: those of StoreLayers, an ellipse
\* without fill and stroke, and a path whose stroke has width 0.
ExportLayers ==
  StoreLayers \o
  << Layer("layer3", "Ellipse Layer",
           EllipseElement(70, 80, 15, 5, Transform(0, 0, 0, 1, 1),
                          [opacity |-> 0])),
     Layer("layer4", "Path Layer",
           PathElement("M 0 0 L 10 10", Transform(5, 6, 0, 1, 1),
                       Style("none", "#000000", 0, 1))) >>

\* The animated properties of the exported projects: every property of the
\* first layer, one axis of the position of the second.
ExportTracks ==
  ({"layer1"} \X AnimatableProperty) \cup ({"layer2"} \X {"x"})

\* The keyframe lists of the exported projects, in every order of times.
ExportKeyframeLists ==
  UNION {
    {[i \in 1..n |-> ExportKeyframe(i, c[i][1][1], c[i][1][2], c[i][2])] :
       c \in [1..n -> ExportTracks \X ExportTimes]} :
    n \in 0..MaxExportKeyframes}

InitExport ==
  /\ \E fps \in FpsValues, duration \in ExportDurations,
        keyframes \in ExportKeyframeLists :
       project = ProjectState("Test Animation", 800, 600, fps, duration, 0,
                              ExportLayers, keyframes)
  /\ nextId = 1
  /\ engine = Null
  /\ loop = FALSE
  /\ timers = <<>>
  /\ fileImport = FileImportState
  /\ conversion = Null
  /\ last = [op |-> "init"]

ExportToLottieSorting ==
  /\ last.op = "exportToLottie" => last.calls < 2
  /\ last' = [op |-> "exportToLottie",
              calls |-> IF last.op = "exportToLottie" THEN last.calls + 1 ELSE 1,
              before |-> project,
              previous |-> IF last.op = "exportToLottie" THEN last.result ELSE NotFound,
              result |-> exportToLottie(project)]
  /\ project' = [project EXCEPT !.keyframes = SortByTime(@)]
  /\ UNCHANGED <<others, nextId, timeline>>

\* A call of exportToLottie on the store's project; the runs make two. The
\* code assigns to locals and to the document it returns only.
ExportToLottie ==
  /\ last.op = "exportToLottie" => last.calls < 2
  /\ last' = [op |-> "exportToLottie",
              calls |-> IF last.op = "exportToLottie" THEN last.calls + 1 ELSE 1,
              before |-> project,
              previous |-> IF last.op = "exportToLottie" THEN last.result ELSE NotFound,
              result |-> exportToLottie(project)]
  /\ project' = project
  /\ UNCHANGED <<others, nextId, timeline>>

SpecExport == InitExport /\ [][ExportToLottie]_vars

\* ------------------------------------------------------ the PlaybackEngine
\* engine is a record of the controller's clock and state.

PlaybackEngine(fps, duration, loopFlag) ==
  [currentTime |-> 0, state |-> "stopped", fps |-> fps, duration |-> duration,
   loop |-> loopFlag]

play(e) == [e EXCEPT !.state = "playing"]

pause(e) == IF e.state = "playing" THEN [e EXCEPT !.state = "paused"] ELSE e

stopKeepsPlaying(e) == [e EXCEPT !.currentTime = 0]

stop(e) == [e EXCEPT !.state = "stopped", !.currentTime = 0]

Min(a, b) == IF a <= b THEN a ELSE b

Max(a, b) == IF a >= b THEN a ELSE b

Abs(a) == IF a >= 0 THEN a ELSE -a

seekUnclamped(e, time) == [e EXCEPT !.currentTime = time]

seek(e, time) == [e EXCEPT !.currentTime = Max(0, Min(time, e.duration))]

setLoop(e, loopFlag) == [e EXCEPT !.loop = loopFlag]

\* 1 / fps seconds.
FrameDuration(fps) == TimeDen \div fps

\* round(time * fps) / fps
SnapToFrame(time, fps) == RoundFrames(time, fps) * FrameDuration(fps)

tickResetAtEnd(e, elapsed, endState) ==
  LET time == SnapToFrame(e.currentTime + elapsed, e.fps)
  IN IF time < e.duration THEN [e EXCEPT !.currentTime = time]
     ELSE IF e.loop THEN [e EXCEPT !.currentTime = time % e.duration]
     ELSE [e EXCEPT !.currentTime = 0, !.state = endState]

\* One tick of a playing engine, elapsed after the last: the time advances
\* and snaps to a frame; at the duration it wraps when looping and otherwise
\* stays there, the engine leaving the playing state for endState.
tick(e, elapsed, endState) ==
  LET time == SnapToFrame(e.currentTime + elapsed, e.fps)
  IN IF time < e.duration THEN [e EXCEPT !.currentTime = time]
     ELSE IF e.loop THEN [e EXCEPT !.currentTime = time % e.duration]
     ELSE [e EXCEPT !.currentTime = e.duration, !.state = endState]

\* --------------------------------------------- the engine driven on its own

\* The times (in 1/TimeDen seconds) between two ticks: less than a frame, and
\* a frame or more.
ElapsedTimes == {1, 3}

\* The durations (in 1/TimeDen seconds) of the engines of the SpecEngine
\* runs: 1 s and 2 s, a whole number of frames at every frame rate.
EngineDurations == {TimeDen, 2 * TimeDen}

\* The times handed to seek: before 0, within the duration of both engines on
\* and off a frame, and beyond.
EngineSeekTimes == {-3, 0, 4, 6, 12, 15}

\* An engine as the Timeline constructs it; stopCalled tells whether stop()
\* has been called on it, idle whether it has been and play() has not been
\* since.
InitEngine ==
  /\ project = Null
  /\ nextId = 1
  /\ \E fps \in FpsValues, duration \in EngineDurations, loopFlag \in BOOLEAN :
       /\ engine = PlaybackEngine(fps, duration, loopFlag)
       /\ loop = loopFlag
  /\ timers = <<>>
  /\ fileImport = FileImportState
  /\ conversion = Null
  /\ last = [op |-> "init", stopCalled |-> FALSE, idle |-> FALSE]

EnginePlay ==
  /\ engine' = play(engine)
  /\ last' = [op |-> "play", stopCalled |-> last.stopCalled, idle |-> FALSE]
  /\ UNCHANGED <<others, project, nextId, loop, timers>>

EnginePause ==
  /\ engine' = pause(engine)
  /\ last' = [op |-> "pause", stopCalled |-> last.stopCalled, idle |-> last.idle]
  /\ UNCHANGED <<others, project, nextId, loop, timers>>

EngineStop ==
  /\ engine' = stop(engine)
  /\ last' = [op |-> "stop", stopCalled |-> TRUE, idle |-> TRUE]
  /\ UNCHANGED <<others, project, nextId, loop, timers>>

EngineSeek ==
  /\ \E time \in EngineSeekTimes :
       /\ engine' = seek(engine, time)
       /\ last' = [op |-> "seek", time |-> time,
                   stopCalled |-> last.stopCalled, idle |-> last.idle]
  /\ UNCHANGED <<others, project, nextId, loop, timers>>

EngineSetLoop ==
  /\ engine' = setLoop(engine, ~loop)
  /\ loop' = ~loop
  /\ last' = [op |-> "setLoop", stopCalled |-> last.stopCalled, idle |-> last.idle]
  /\ UNCHANGED <<others, project, nextId, timers>>

\* A tick of the engine while it plays; reported is the time its onUpdate
\* callback is called with.
EngineTick ==
  /\ engine.state = "playing"
  /\ \E elapsed \in ElapsedTimes, endState \in {"stopped", "paused"} :
       /\ engine' = tick(engine, elapsed, endState)
       /\ last' = [op |-> "tick", elapsed |-> elapsed,
                   reported |-> engine'.currentTime,
                   stopCalled |-> last.stopCalled, idle |-> last.idle]
  /\ UNCHANGED <<others, project, nextId, loop, timers>>

NextEngine ==
  \/ EnginePlay
  \/ EnginePause
  \/ EngineStop
  \/ EngineSeek
  \/ EngineSetLoop
  \/ EngineTick

SpecEngine == InitEngine /\ [][NextEngine]_vars

\* ------------------------------------------------------------ the Timeline

\* The effects, had the seek not looked at isPlaying.
EffectsSeekingWhilePlaying(old, new, e, oldLoop, newLoop) ==
  LET created ==
        IF old.fps # new.fps \/ old.duration # new.duration \/ oldLoop # newLoop
        THEN [currentTime |-> 0, state |-> "stopped", fps |-> new.fps,
              duration |-> new.duration, loop |-> newLoop]
        ELSE e
      synced ==
        IF old.isPlaying # new.isPlaying
        THEN (IF new.isPlaying THEN [created EXCEPT !.state = "playing"]
              ELSE IF created.state = "playing"
                   THEN [created EXCEPT !.state = "paused"] ELSE created)
        ELSE created
      timeDiff == IF synced.currentTime >= new.currentTime
                  THEN synced.currentTime - new.currentTime
                  ELSE new.currentTime - synced.currentTime
  IN IF /\ old.currentTime # new.currentTime \/ old.isPlaying # new.isPlaying
        /\ 100 * timeDiff > TimeDen
     THEN [synced EXCEPT !.currentTime =
             IF new.currentTime < 0 THEN 0
             ELSE IF new.currentTime > synced.duration THEN synced.duration
             ELSE new.currentTime]
     ELSE synced

\* The effects of the Timeline that run after a render, in order: a new
\* engine when fps, duration or loop changed; play or pause when isPlaying
\* changed; a seek when currentTime or isPlaying changed, the engine is more
\* than 0.01 s away from the project's time and the project is not playing.
Effects(old, new, e, oldLoop, newLoop) ==
  LET created ==
        IF old.fps # new.fps \/ old.duration # new.duration \/ oldLoop # newLoop
        THEN PlaybackEngine(new.fps, new.duration, newLoop)
        ELSE e
      synced ==
        IF old.isPlaying # new.isPlaying
        THEN (IF new.isPlaying THEN play(created) ELSE pause(created))
        ELSE created
      timeDiff == Abs(synced.currentTime - new.currentTime)
  IN IF /\ old.currentTime # new.currentTime \/ old.isPlaying # new.isPlaying
        /\ 100 * timeDiff > TimeDen
        /\ ~new.isPlaying
     THEN seek(synced, new.currentTime)
     ELSE synced

\* The handler named in call has run: the store holds newProject, the engine
\* is left as e and the loop state as newLoop; the component renders and its
\* effects run.
Render(call, newProject, e, newLoop) ==
  /\ project' = newProject
  /\ loop' = newLoop
  /\ engine' = Effects(project, newProject, e, loop, newLoop)
  /\ last' = call

\* The settings the SpecTimeline runs hand to updateProjectSettings: a
\* duration of 1 s or of 2 s.
TimelineSettings == {[duration |-> TimeDen], [duration |-> 2 * TimeDen]}

UpdateProjectSettings ==
  /\ \E settings \in TimelineSettings :
       Render([op |-> "updateProjectSettings"],
              updateProjectSettings(project, settings), engine, loop)
  /\ UNCHANGED <<others, nextId, timers>>

\* The values of the range input: min 0, max duration, step 1 / fps.
RangeValues ==
  {k * FrameDuration(project.fps) :
     k \in {j \in 0..project.duration : j * FrameDuration(project.fps) <= project.duration}}

HandleTimeChange ==
  /\ \E rawTime \in RangeValues :
       LET frameDuration == FrameDuration(project.fps)
           frameNumber == RoundDiv(rawTime, frameDuration)
           snappedTime == frameNumber * frameDuration
       IN Render([op |-> "handleTimeChange"], setCurrentTime(project, snappedTime),
                 seek(engine, snappedTime), loop)
  /\ UNCHANGED <<others, nextId, timers>>

TogglePlayback ==
  /\ Render([op |-> "togglePlayback"], setIsPlaying(project, ~project.isPlaying),
            engine, loop)
  /\ UNCHANGED <<others, nextId, timers>>

HandleStop ==
  /\ Render([op |-> "handleStop"], setCurrentTime(setIsPlaying(project, FALSE), 0),
            stop(engine), loop)
  /\ UNCHANGED <<others, nextId, timers>>

ToggleLoop ==
  /\ Render([op |-> "toggleLoop"], project, setLoop(engine, ~loop), ~loop)
  /\ UNCHANGED <<others, nextId, timers>>

StepForward ==
  /\ LET newTime == Min(project.currentTime + FrameDuration(project.fps),
                        project.duration)
     IN Render([op |-> "stepForward"], setCurrentTime(project, newTime),
               seek(engine, newTime), loop)
  /\ UNCHANGED <<others, nextId, timers>>

StepBackward ==
  /\ LET newTime == Max(project.currentTime - FrameDuration(project.fps), 0)
     IN Render([op |-> "stepBackward"], setCurrentTime(project, newTime),
               seek(engine, newTime), loop)
  /\ UNCHANGED <<others, nextId, timers>>

KeyHome ==
  /\ Render([op |-> "keyHome"], setCurrentTime(project, 0), seek(engine, 0), loop)
  /\ UNCHANGED <<others, nextId, timers>>

KeyEnd ==
  /\ Render([op |-> "keyEnd"], setCurrentTime(project, project.duration),
            seek(engine, project.duration), loop)
  /\ UNCHANGED <<others, nextId, timers>>

\* getAnimatedProperties(layerId): the properties the layer has a track for.
getAnimatedProperties(layerId) ==
  LET keyframes == getKeyframesForLayer(project, layerId, Undefined)
  IN {keyframes[i].property : i \in 1..Len(keyframes)}

\* The places of a track the SpecTimeline runs click, in halves of its width.
ClickHalves == {0, 1, 2}

\* handleTrackClick, had it added the keyframe before moving the time.
HandleTrackClickAtPlayhead ==
  /\ nextId <= MaxIds
  /\ \E i \in 1..Len(project.layers), half \in ClickHalves :
       LET layer == project.layers[i]
       IN \E property \in getAnimatedProperties(layer.id) :
            LET time == (half * project.duration) \div 2
                value == Num(layer.element.transform[property])
                originalTime == project.currentTime
                added == setCurrentTime(addKeyframe(project, nextId, layer.id,
                                                    property, value, "linear"),
                                        time)
            IN /\ Render([op |-> "handleTrackClick", layerId |-> layer.id,
                           property |-> property, time |-> time],
                          added, engine, loop)
               /\ timers' = Append(timers, originalTime)
  /\ nextId' = nextId + 1
  /\ UNCHANGED others

\* A click on the track of a property of a layer: a keyframe of the layer's
\* static value is added at the clicked time, and a timer is left to put the
\* current time back.
HandleTrackClick ==
  /\ nextId <= MaxIds
  /\ \E i \in 1..Len(project.layers), half \in ClickHalves :
       LET layer == project.layers[i]
       IN \E property \in getAnimatedProperties(layer.id) :
            LET time == (half * project.duration) \div 2
                value == Num(layer.element.transform[property])
                originalTime == project.currentTime
                added == addKeyframe(setCurrentTime(project, time), nextId,
                                     layer.id, property, value, "linear")
            IN /\ Render([op |-> "handleTrackClick", layerId |-> layer.id,
                           property |-> property, time |-> time],
                          added, engine, loop)
               /\ timers' = Append(timers, originalTime)
  /\ nextId' = nextId + 1
  /\ UNCHANGED others

\* The oldest setTimeout callback of handleTrackClick runs.
Timeout ==
  /\ timers # <<>>
  /\ Render([op |-> "timeout"],
            setCurrentTime(project, Head(timers)), engine, loop)
  /\ timers' = Tail(timers)
  /\ UNCHANGED <<others, nextId>>

\* The keyframes that have a marker on a track.
Markers ==
  {i \in 1..Len(project.keyframes) :
     \E j \in 1..Len(project.layers) :
       project.keyframes[i].layerId = project.layers[j].id}

HandleKeyframeClick ==
  /\ \E i \in Markers, shiftKey \in BOOLEAN :
       LET keyframe == project.keyframes[i]
       IN IF shiftKey
          THEN Render([op |-> "handleKeyframeClick"],
                      deleteKeyframe(project, keyframe.id), engine, loop)
          ELSE Render([op |-> "handleKeyframeClick"],
                      setCurrentTime(project, keyframe.time), engine, loop)
  /\ UNCHANGED <<others, nextId, timers>>

\* A tick of the playing engine, and its onUpdate callback.
Tick ==
  /\ engine.state = "playing"
  /\ \E elapsed \in ElapsedTimes, endState \in {"stopped", "paused"} :
       LET ticked == tick(engine, elapsed, endState)
       IN Render([op |-> "tick"], setCurrentTime(project, ticked.currentTime),
                 ticked, loop)
  /\ UNCHANGED <<others, nextId, timers>>

\* The keyframes the first layer has when the Timeline is mounted: every
\* identifier but the last has been given out, to keyframes of x and y in
\* turn, one frame apart.
TimelineKeyframes ==
  [i \in 1..(MaxIds - 1) |->
     [Keyframe(i, (i - 1) * FrameDuration(2), IF i % 2 = 1 THEN "x" ELSE "y",
               Num(100), "linear")
      EXCEPT !.layerId = "layer1"]]

\* The Timeline mounted on a project of 2 s whose first layer has keyframes.
InitTimeline ==
  /\ project = ProjectState("Untitled Project", 800, 600, 2, 2 * TimeDen, 0,
                            StoreLayers, TimelineKeyframes)
  /\ nextId = MaxIds
  /\ engine = PlaybackEngine(2, 2 * TimeDen, FALSE)
  /\ loop = FALSE
  /\ timers = <<>>
  /\ fileImport = FileImportState
  /\ conversion = Null
  /\ last = [op |-> "init"]

NextTimeline ==
  \/ UpdateProjectSettings
  \/ HandleTimeChange
  \/ TogglePlayback
  \/ HandleStop
  \/ ToggleLoop
  \/ StepForward
  \/ StepBackward
  \/ KeyHome
  \/ KeyEnd
  \/ HandleTrackClick
  \/ Timeout
  \/ HandleKeyframeClick
  \/ Tick

SpecTimeline == InitTimeline /\ [][NextTimeline]_vars

\* ----------------------------------------------------- the Interpolation
\* A value of getValueAtTime is the fraction num / den.

\* The largest index of keyframes whose time is at most t.
BracketStart(keyframes, t) ==
  CHOOSE i \in 1..Len(keyframes) :
    /\ keyframes[i].time <= t
    /\ \A j \in 1..Len(keyframes) : keyframes[j].time <= t => j <= i

getValueAtTimeNextEasing(keyframes, t) ==
  LET first == keyframes[1]
      final == keyframes[Len(keyframes)]
  IN IF t <= first.time THEN Frac(first.value.n, 1)
     ELSE IF t >= final.time THEN Frac(final.value.n, 1)
     ELSE LET k0 == keyframes[BracketStart(keyframes, t)]
              k1 == keyframes[BracketStart(keyframes, t) + 1]
              span == k1.time - k0.time
          IN IF k1.easing = "hold" THEN Frac(k0.value.n, 1)
             ELSE Frac(k0.value.n * span + (k1.value.n - k0.value.n) * (t - k0.time),
                       span)

getValueAtTimeExtrapolating(keyframes, t) ==
  LET first == keyframes[1]
      final == keyframes[Len(keyframes)]
      Between(k0, k1) ==
        IF k0.easing = "hold" \/ k1.time = k0.time THEN Frac(k0.value.n, 1)
        ELSE Frac(k0.value.n * (k1.time - k0.time)
                    + (k1.value.n - k0.value.n) * (t - k0.time),
                  k1.time - k0.time)
  IN IF Len(keyframes) = 1 THEN Frac(first.value.n, 1)
     ELSE IF t < first.time THEN Between(first, keyframes[2])
     ELSE IF t >= final.time THEN Between(keyframes[Len(keyframes) - 1], final)
     ELSE Between(keyframes[BracketStart(keyframes, t)],
                  keyframes[BracketStart(keyframes, t) + 1])

\* getValueAtTime(keyframes, t) for keyframes sorted by time, of numeric
\* values, with easing linear or hold: the first value at or before the first
\* time, the last value at or after the last time, and between k0 and k1 the
\* value at the progress that k0's easing gives (hold: 0, linear: the share
\* of the interval passed).
getValueAtTime(keyframes, t) ==
  LET first == keyframes[1]
      final == keyframes[Len(keyframes)]
  IN IF t <= first.time THEN Frac(first.value.n, 1)
     ELSE IF t >= final.time THEN Frac(final.value.n, 1)
     ELSE LET k0 == keyframes[BracketStart(keyframes, t)]
              k1 == keyframes[BracketStart(keyframes, t) + 1]
              span == k1.time - k0.time
          IN IF k0.easing = "hold" THEN Frac(k0.value.n, 1)
             ELSE Frac(k0.value.n * span + (k1.value.n - k0.value.n) * (t - k0.time),
                       span)

\* Longest keyframe list of the SpecInterpolation runs.
MaxInterpKeyframes == 2

\* The times (in 1/TimeDen seconds) of the keyframes: 0 s, 1 s and 2 s.
InterpTimes == {0, TimeDen, 2 * TimeDen}

\* The current times of the runs: every half second from 0 s to 2.5 s.
InterpQueryTimes == {0, 3, 6, 9, 12, 15}

InterpValues == {0, 200}

InterpEasings == {"linear", "hold"}

\* The keyframe lists of the runs: keyframes of x of the first layer, in any
\* order.
InterpKeyframeLists ==
  UNION {
    {[i \in 1..n |->
        [Keyframe(i, c[i][1], "x", Num(c[i][2]), c[i][3]) EXCEPT !.layerId = "layer1"]] :
       c \in [1..n -> InterpTimes \X InterpValues \X InterpEasings]} :
    n \in 0..MaxInterpKeyframes}

\* The PropertyEditor on a project whose first layer is selected.
InitInterpolation ==
  /\ \E currentTime \in InterpQueryTimes, keyframes \in InterpKeyframeLists :
       project = [ProjectState("Test", 800, 600, 2, 5 * TimeDen, currentTime,
                               StoreLayers, keyframes)
                    EXCEPT !.selectedLayerId = "layer1"]
  /\ nextId = 1
  /\ engine = Null
  /\ loop = FALSE
  /\ timers = <<>>
  /\ fileImport = FileImportState
  /\ conversion = Null
  /\ last = [op |-> "init"]

\* project.layers.find(l => l.id === project.selectedLayerId)
SelectedLayer(p) ==
  p.layers[CHOOSE i \in 1..Len(p.layers) : p.layers[i].id = p.selectedLayerId]

\* The effect of the PropertyEditor, for x: setPositionX of the interpolated
\* value when the layer has keyframes of x, of transform.x when it has none.
PropertyEditorEffect ==
  /\ project.selectedLayerId # Undefined
  /\ \E i \in 1..Len(project.layers) : project.layers[i].id = project.selectedLayerId
  /\ LET layer == SelectedLayer(project)
         xKeyframes == getKeyframesForLayer(project, layer.id, "x")
     IN last' = [op |-> "setPositionX",
                 interpolated |-> Len(xKeyframes) > 0,
                 positionX |-> IF Len(xKeyframes) > 0
                               THEN getValueAtTime(xKeyframes, project.currentTime)
                               ELSE Frac(layer.element.transform.x, 1)]
  /\ UNCHANGED <<others, project, nextId, timeline>>

SpecInterpolation == InitInterpolation /\ [][PropertyEditorEffect]_vars

\* ------------------------------------------- the store without a project
\* Every action of the store, called while the store holds no project, as
\* after useStore.setState({ project: null }).

\* The settings updateProjectSettings is handed in these runs.
NullSettings ==
  {[name |-> "New Name"], [fps |-> 3], [duration |-> 2 * TimeDen],
   [name |-> "New Name", fps |-> 3]}

\* The easing argument; Undefined when the caller gives none.
NullEasings == {Undefined, "ease-in"}

InitNull ==
  /\ project = Null
  /\ nextId = 1
  /\ engine = Null
  /\ loop = FALSE
  /\ timers = <<>>
  /\ fileImport = FileImportState
  /\ conversion = Null
  /\ last = [op |-> "init"]

NullUpdateProjectSettings ==
  \E settings \in NullSettings :
    /\ project' = updateProjectSettings(project, settings)
    /\ last' = [op |-> "updateProjectSettings", settings |-> settings]
    /\ UNCHANGED <<others, nextId, timeline>>

NullSetCurrentTime ==
  \E time \in StoreTimes :
    /\ project' = setCurrentTime(project, time)
    /\ last' = [op |-> "setCurrentTime", time |-> time]
    /\ UNCHANGED <<others, nextId, timeline>>

NullSetIsPlaying ==
  \E playing \in BOOLEAN :
    /\ project' = setIsPlaying(project, playing)
    /\ last' = [op |-> "setIsPlaying", playing |-> playing]
    /\ UNCHANGED <<others, nextId, timeline>>

NullToggleLayerVisibility ==
  \E layerId \in LayerIds \cup {"non-existent"} :
    /\ project' = toggleLayerVisibility(project, layerId)
    /\ last' = [op |-> "toggleLayerVisibility", layerId |-> layerId]
    /\ UNCHANGED <<others, nextId, timeline>>

NullToggleLayerLock ==
  \E layerId \in LayerIds \cup {"non-existent"} :
    /\ project' = toggleLayerLock(project, layerId)
    /\ last' = [op |-> "toggleLayerLock", layerId |-> layerId]
    /\ UNCHANGED <<others, nextId, timeline>>

NullSelectLayer ==
  \E layerId \in LayerIds \cup {Undefined} :
    /\ project' = selectLayer(project, layerId)
    /\ last' = [op |-> "selectLayer", layerId |-> layerId]
    /\ UNCHANGED <<others, nextId, timeline>>

\* With no project the action returns before it builds the keyframe, so no
\* identifier is generated.
NullAddKeyframe ==
  \E layerId \in LayerIds, property \in StoreProperties, value \in StoreValues,
     easing \in NullEasings :
    /\ project' = addKeyframe(project, nextId, layerId, property, value,
                              IF easing = Undefined THEN "linear" ELSE easing)
    /\ nextId' = IF project = Null THEN nextId ELSE nextId + 1
    /\ last' = [op |-> "addKeyframe", layerId |-> layerId, property |-> property,
                value |-> value, easing |-> easing]
    /\ UNCHANGED <<others, timeline>>

NullDeleteKeyframe ==
  \E keyframeId \in KeyframeIds :
    /\ project' = deleteKeyframe(project, keyframeId)
    /\ last' = [op |-> "deleteKeyframe", keyframeId |-> keyframeId]
    /\ UNCHANGED <<others, nextId, timeline>>

NullUpdateKeyframe ==
  \E keyframeId \in KeyframeIds, updates \in StoreUpdates :
    /\ project' = updateKeyframe(project, keyframeId, updates)
    /\ last' = [op |-> "updateKeyframe", keyframeId |-> keyframeId,
                updates |-> updates]
    /\ UNCHANGED <<others, nextId, timeline>>

NullGetKeyframesForLayer ==
  \E layerId \in LayerIds \cup {"non-existent"}, property \in {"x", Undefined} :
    /\ last' = [op |-> "getKeyframesForLayer", layerId |-> layerId,
                property |-> property, after |-> last.op,
                result |-> getKeyframesForLayer(project, layerId, property)]
    /\ UNCHANGED <<others, project, nextId, timeline>>

NextNull ==
  \/ NullUpdateProjectSettings
  \/ NullSetCurrentTime
  \/ NullSetIsPlaying
  \/ NullToggleLayerVisibility
  \/ NullToggleLayerLock
  \/ NullSelectLayer
  \/ NullAddKeyframe
  \/ NullDeleteKeyframe
  \/ NullUpdateKeyframe
  \/ NullGetKeyframesForLayer

SpecNull == InitNull /\ [][NextNull]_vars

\* ----------------------------------------------------------- the SVG import
\* An SVG source is the document DOMParser makes of it: parsererror tells
\* whether it holds a <parsererror>, svg is its <svg> element or Null. The
\* <svg> has its children, each with a tag, an id and a fill, and may have a
\* viewBox width and height.

\* parseStyle of an element whose only style attribute is fill.
parseStyle(child) ==
  IF child.fill # "none" THEN [fill |-> child.fill] ELSE [none |-> TRUE]

\* parseRect and parseCircle of an element without geometry attributes, and
\* null (NotFound) for a tag parseElement does not support.
parseElement(child) ==
  CASE child.tag = "rect" ->
         [id |-> child.id, type |-> "rect", name |-> "Rect " \o child.id,
          transform |-> Transform(0, 0, 0, 1, 1), style |-> parseStyle(child),
          x |-> 0, y |-> 0, width |-> 0, height |-> 0]
    [] child.tag = "circle" ->
         [id |-> child.id, type |-> "circle", name |-> "Circle " \o child.id,
          transform |-> Transform(0, 0, 0, 1, 1), style |-> parseStyle(child),
          cx |-> 0, cy |-> 0, r |-> 0]
    [] OTHER -> NotFound

\* generateId(): the n-th identifier it gives.
generateId(n) == "el_" \o ToString(n)

\* firstId is the number of the first identifier generateId() gives to a
\* layer; the layers take consecutive ones.
parseSVG(doc, firstId) ==
  IF doc.parsererror
  THEN [success |-> FALSE, layers |-> <<>>, error |-> "Invalid SVG: parsererror"]
  ELSE IF doc.svg = Null
  THEN [success |-> FALSE, layers |-> <<>>, error |-> "No SVG element found"]
  ELSE LET parsed == SelectSeq([j \in 1..Len(doc.svg.children) |->
                                  parseElement(doc.svg.children[j])],
                               LAMBDA element : element # NotFound)
           layers == [j \in 1..Len(parsed) |->
                        Layer(generateId(firstId + j - 1), parsed[j].name, parsed[j])]
       IN IF "width" \in DOMAIN doc.svg
          THEN [success |-> TRUE, layers |-> layers,
                width |-> doc.svg.width, height |-> doc.svg.height]
          ELSE [success |-> TRUE, layers |-> layers]

\* The store's setProject.
setProject(p, newProject) == newProject

\* The files of the SpecImport runs: one that cannot be read, a malformed
\* source, a document without <svg>, an <svg> with nothing the parser
\* supports, one with a circle, and one with a viewBox, a rect and a <text>.
SvgFiles ==
  {[name |-> "unreadable.svg", readable |-> FALSE,
    content |-> [parsererror |-> TRUE, svg |-> Null]],
   [name |-> "malformed.svg", readable |-> TRUE,
    content |-> [parsererror |-> TRUE, svg |-> Null]],
   [name |-> "nosvg.svg", readable |-> TRUE,
    content |-> [parsererror |-> FALSE, svg |-> Null]],
   [name |-> "text.svg", readable |-> TRUE,
    content |-> [parsererror |-> FALSE,
                 svg |-> [children |-> <<[tag |-> "text", id |-> "t", fill |-> "none"]>>]]],
   [name |-> "test.svg", readable |-> TRUE,
    content |-> [parsererror |-> FALSE,
                 svg |-> [children |-> <<[tag |-> "circle", id |-> "c", fill |-> "#00ff00"]>>]]],
   [name |-> "box.svg", readable |-> TRUE,
    content |-> [parsererror |-> FALSE,
                 svg |-> [width |-> 100, height |-> 50,
                          children |-> <<[tag |-> "rect", id |-> "r", fill |-> "#ff0000"],
                                         [tag |-> "text", id |-> "t", fill |-> "none"]>>]]]}

\* handleFileChange up to its await: the message and the flag are set and the
\* read starts. The handler keeps the project of the render it was made in.
\* The button that opens the file dialog is disabled while isProcessing.
HandleFileChange ==
  /\ ~fileImport.isProcessing
  /\ \E file \in SvgFiles :
       /\ fileImport' = [message |-> [type |-> "loading", text |-> "Importing..."],
                         isProcessing |-> TRUE,
                         reads |-> Append(fileImport.reads,
                                          [file |-> file, project |-> project])]
       /\ last' = [op |-> "handleFileChange", file |-> file.name]
  /\ UNCHANGED <<project, nextId, timeline, conversion>>

\* The message a finished import leaves, given what happened.
ImportMessage(outcome, parseResult) ==
  CASE outcome = "unreadable" -> [type |-> "error", text |-> "Failed to read file"]
    [] outcome = "failed" ->
         [type |-> "error", text |-> "Failed to import SVG: " \o parseResult.error]
    [] outcome = "empty" -> [type |-> "error", text |-> "No elements found in SVG"]
    [] OTHER -> [type |-> "success", text |-> "Successfully imported"]

\* handleFileChange, had it left isProcessing set on its early returns.
FileReadKeepsProcessing ==
  /\ fileImport.reads # <<>>
  /\ LET read == Head(fileImport.reads)
         parseResult == IF read.file.readable
                        THEN parseSVG(read.file.content, nextId) ELSE NotFound
         outcome == IF ~read.file.readable THEN "unreadable"
                    ELSE IF ~parseResult.success THEN "failed"
                    ELSE IF Len(parseResult.layers) = 0 THEN "empty"
                    ELSE "imported"
         merged == IF read.project # Null
                   THEN [read.project EXCEPT
                           !.layers = read.project.layers \o parseResult.layers]
                   ELSE [ProjectState(read.file.name,
                                      IF "width" \in DOMAIN parseResult
                                      THEN parseResult.width ELSE 800,
                                      IF "height" \in DOMAIN parseResult
                                      THEN parseResult.height ELSE 600,
                                      30, 3 * TimeDen, 0, parseResult.layers, <<>>)
                         EXCEPT !.isPlaying = FALSE, !.selectedLayerId = Undefined]
     IN /\ nextId + (IF read.file.readable THEN Len(parseResult.layers) ELSE 0)
             <= MaxIds + 1
        /\ project' = IF outcome = "imported" THEN setProject(project, merged)
                      ELSE project
        /\ nextId' = nextId + (IF read.file.readable THEN Len(parseResult.layers) ELSE 0)
        /\ fileImport' = [message |-> ImportMessage(outcome, parseResult),
                          isProcessing |-> outcome \in {"failed", "empty"},
                          reads |-> Tail(fileImport.reads)]
        /\ last' = [op |-> "fileRead", outcome |-> outcome, before |-> project,
                    captured |-> read.project, result |-> parseResult]
  /\ UNCHANGED <<timeline, conversion>>

\* The read of the file has settled and the rest of handleFileChange runs:
\* the catch when the read failed; an error message when the parse failed or
\* gave no layer; otherwise setProject with the layers appended to the
\* project the handler kept, or with a new project when it kept none.
FileRead ==
  /\ fileImport.reads # <<>>
  /\ LET read == Head(fileImport.reads)
         parseResult == IF read.file.readable
                        THEN parseSVG(read.file.content, nextId) ELSE NotFound
         outcome == IF ~read.file.readable THEN "unreadable"
                    ELSE IF ~parseResult.success THEN "failed"
                    ELSE IF Len(parseResult.layers) = 0 THEN "empty"
                    ELSE "imported"
         merged == IF read.project # Null
                   THEN [read.project EXCEPT
                           !.layers = read.project.layers \o parseResult.layers]
                   ELSE [ProjectState(read.file.name,
                                      IF "width" \in DOMAIN parseResult
                                      THEN parseResult.width ELSE 800,
                                      IF "height" \in DOMAIN parseResult
                                      THEN parseResult.height ELSE 600,
                                      30, 3 * TimeDen, 0, parseResult.layers, <<>>)
                         EXCEPT !.isPlaying = FALSE, !.selectedLayerId = Undefined]
     IN /\ nextId + (IF read.file.readable THEN Len(parseResult.layers) ELSE 0)
             <= MaxIds + 1
        /\ project' = IF outcome = "imported" THEN setProject(project, merged)
                      ELSE project
        /\ nextId' = nextId + (IF read.file.readable THEN Len(parseResult.layers) ELSE 0)
        /\ fileImport' = [message |-> ImportMessage(outcome, parseResult),
                          isProcessing |-> FALSE,
                          reads |-> Tail(fileImport.reads)]
        /\ last' = [op |-> "fileRead", outcome |-> outcome, before |-> project,
                    captured |-> read.project, result |-> parseResult]
  /\ UNCHANGED <<timeline, conversion>>

\* The store actions of the user while a file is read or between imports.
ImportAddKeyframe ==
  /\ nextId <= MaxIds
  /\ project' = addKeyframe(project, nextId, "layer1", "x", Num(100), "linear")
  /\ nextId' = IF project = Null THEN nextId ELSE nextId + 1
  /\ last' = [op |-> "addKeyframe"]
  /\ UNCHANGED <<timeline, others>>

ImportToggleLayerVisibility ==
  /\ project' = toggleLayerVisibility(project, "layer1")
  /\ last' = [op |-> "toggleLayerVisibility"]
  /\ UNCHANGED <<nextId, timeline, others>>

ImportSetCurrentTime ==
  /\ \E time \in StoreTimes : project' = setCurrentTime(project, time)
  /\ last' = [op |-> "setCurrentTime"]
  /\ UNCHANGED <<nextId, timeline, others>>

ImportUpdateProjectSettings ==
  /\ project' = updateProjectSettings(project, [name |-> "New Name"])
  /\ last' = [op |-> "updateProjectSettings"]
  /\ UNCHANGED <<nextId, timeline, others>>

\* The editor opened with no project, or with a project of two layers.
InitImport ==
  /\ project \in {Null, ProjectState("Existing Project", 800, 600, 2, 3 * TimeDen, 0,
                                     StoreLayers, <<>>)}
  /\ nextId = 1
  /\ engine = Null
  /\ loop = FALSE
  /\ timers = <<>>
  /\ fileImport = FileImportState
  /\ conversion = Null
  /\ last = [op |-> "init"]

NextImport ==
  \/ HandleFileChange
  \/ FileRead
  \/ ImportAddKeyframe
  \/ ImportToggleLayerVisibility
  \/ ImportSetCurrentTime
  \/ ImportUpdateProjectSettings

SpecImport == InitImport /\ [][NextImport]_vars

\* ------------------------------------------------------- the GIF converter
\* conversion is one call of convertLottieToGif: its config, whether the
\* input file exists, where the call stands (pc), the progress reports made
\* so far, the stages started, the output path, and the error it rejected
\* with. A path is the sequence of its characters. Percentages are in
\* 1/PercentDen of a percent, so that 0.6 and 0.3 of a whole one are exact.

PercentDen == 2 * 5

\* String.prototype.toLowerCase on the characters the runs use.
ToLowerCase(c) ==
  CASE c = "J" -> "j" [] c = "S" -> "s" [] c = "O" -> "o" [] c = "N" -> "n"
    [] OTHER -> c

\* input.replace(/\.json$/i, '.gif')
ReplaceJsonSuffix(input) ==
  LET n == Len(input)
      suffix == IF n >= 5 THEN [j \in 1..5 |-> ToLowerCase(input[n - 5 + j])]
                ELSE <<>>
  IN IF suffix = <<".", "j", "s", "o", "n">>
     THEN SubSeq(input, 1, n - 5) \o <<".", "g", "i", "f">>
     ELSE input

\* config.output || config.input.replace(/\.json$/i, '.gif'): an output that
\* is missing or the empty string gives way to the replaced input.
OutputPath(config) ==
  IF "output" \in DOMAIN config /\ config.output # <<>>
  THEN config.output
  ELSE ReplaceJsonSuffix(config.input)

\* The percentage reported for a renderer progress of p percent, had the
\* rendering stage been given 70 points of the scale.
renderingPercentageWide(p) == 10 * PercentDen + p * 7

\* 10 + (renderProgress.percentage * 0.6)
renderingPercentage(p) == 10 * PercentDen + p * 6

\* 70 + (encodeProgress.percentage * 0.3)
encodingPercentage(p) == 70 * PercentDen + p * 3

\* config.onProgress(report) when the config has a callback.
Report(c, phase, percentage) ==
  IF c.config.onProgress
  THEN [c EXCEPT !.reports = Append(@, [phase |-> phase, percentage |-> percentage])]
  ELSE c

\* throw new ConversionError(message, phase): the call rejects.
Reject(c, phase) ==
  [c EXCEPT !.pc = "rejected",
            !.error = [name |-> "ConversionError", phase |-> phase]]

\* The most progress reports a stage makes in the runs.
MaxProgress == 2

\* The percentages the renderer and the encoder report.
SubPercentages == {0, 33, 100}

\* The input paths of the runs.
InputPaths ==
  {<<"a", ".", "j", "s", "o", "n">>,
   <<"a", ".", "J", "S", "O", "N">>,
   <<"a", ".", "l", "o", "t", "t", "i", "e">>,
   <<"j", "s", "o", "n">>}

\* The configs of the runs: with an output path, with an empty one and with
\* none; with a progress callback and without.
ConversionConfigs ==
  {[input |-> input, output |-> output, onProgress |-> onProgress] :
     input \in InputPaths, output \in {<<"o", ".", "g", "i", "f">>, <<>>},
     onProgress \in BOOLEAN}
  \cup {[input |-> input, onProgress |-> onProgress] :
          input \in InputPaths, onProgress \in BOOLEAN}

InitConvert ==
  /\ project = Null
  /\ nextId = 1
  /\ engine = Null
  /\ loop = FALSE
  /\ timers = <<>>
  /\ fileImport = FileImportState
  /\ \E config \in ConversionConfigs, exists \in BOOLEAN :
       conversion = [config |-> config, exists |-> exists, pc |-> "called",
                     reports |-> <<>>, started |-> <<>>, progress |-> <<>>,
                     outputPath |-> <<>>, error |-> NotFound]
  /\ last = [op |-> "init"]

\* convertLottieToGif up to its first await: the input is looked for, the
\* output path is determined, 'parsing' is reported and parseLottieFile is
\* called.
ConvertStart ==
  /\ conversion.pc = "called"
  /\ conversion' =
       IF ~conversion.exists THEN Reject(conversion, "parsing")
       ELSE [Report([conversion EXCEPT !.outputPath = OutputPath(conversion.config)],
                    "parsing", 0)
             EXCEPT !.pc = "parsing", !.started = Append(@, "parsing")]
  /\ last' = [op |-> "convertStart", outcome |-> IF conversion.exists THEN "ok" ELSE "missing"]
  /\ UNCHANGED <<project, nextId, timeline, fileImport>>

\* parseLottieFile settles: a throw is wrapped in a ConversionError of the
\* parsing phase; otherwise 'rendering' is reported and renderAnimation called.
ParseSettles ==
  /\ conversion.pc = "parsing"
  /\ \E outcome \in {"ok", "throws"} :
       /\ conversion' =
            IF outcome = "throws" THEN Reject(conversion, "parsing")
            ELSE [Report(conversion, "rendering", 10 * PercentDen)
                  EXCEPT !.pc = "rendering", !.started = Append(@, "rendering"),
                         !.progress = <<>>]
       /\ last' = [op |-> "parseSettles", outcome |-> outcome]
  /\ UNCHANGED <<project, nextId, timeline, fileImport>>

\* The renderer reports its progress, never less than it reported before.
RenderProgress ==
  /\ conversion.pc = "rendering"
  /\ Len(conversion.progress) < MaxProgress
  /\ \E p \in SubPercentages :
       /\ \A j \in 1..Len(conversion.progress) : conversion.progress[j] <= p
       /\ conversion' = [Report(conversion, "rendering", renderingPercentage(p))
                         EXCEPT !.progress = Append(@, p)]
       /\ last' = [op |-> "renderProgress", percentage |-> p]
  /\ UNCHANGED <<project, nextId, timeline, fileImport>>

\* renderAnimation, had its throw been let by and the encoder called.
RenderSettlesGoesOn ==
  /\ conversion.pc = "rendering"
  /\ \E outcome \in {"ok", "throws"} :
       /\ conversion' =
            [Report(conversion, "encoding", 70 * PercentDen)
             EXCEPT !.pc = "encoding", !.started = Append(@, "encoding"),
                    !.progress = <<>>]
       /\ last' = [op |-> "renderSettles", outcome |-> outcome]
  /\ UNCHANGED <<project, nextId, timeline, fileImport>>

\* renderAnimation settles: a throw is wrapped in a ConversionError of the
\* rendering phase; otherwise 'encoding' is reported and encodeToGif is called
\* with the output path.
RenderSettles ==
  /\ conversion.pc = "rendering"
  /\ \E outcome \in {"ok", "throws"} :
       /\ conversion' =
            IF outcome = "throws" THEN Reject(conversion, "rendering")
            ELSE [Report(conversion, "encoding", 70 * PercentDen)
                  EXCEPT !.pc = "encoding", !.started = Append(@, "encoding"),
                         !.progress = <<>>]
       /\ last' = [op |-> "renderSettles", outcome |-> outcome]
  /\ UNCHANGED <<project, nextId, timeline, fileImport>>

\* The encoder reports its progress, never less than it reported before.
EncodeProgress ==
  /\ conversion.pc = "encoding"
  /\ Len(conversion.progress) < MaxProgress
  /\ \E p \in SubPercentages :
       /\ \A j \in 1..Len(conversion.progress) : conversion.progress[j] <= p
       /\ conversion' = [Report(conversion, "encoding", encodingPercentage(p))
                         EXCEPT !.progress = Append(@, p)]
       /\ last' = [op |-> "encodeProgress", percentage |-> p]
  /\ UNCHANGED <<project, nextId, timeline, fileImport>>

\* encodeToGif settles: a throw is wrapped in a ConversionError of the
\* encoding phase; otherwise 'complete' is reported and the call resolves.
EncodeSettles ==
  /\ conversion.pc = "encoding"
  /\ \E outcome \in {"ok", "throws"} :
       /\ conversion' =
            IF outcome = "throws" THEN Reject(conversion, "encoding")
            ELSE [Report(conversion, "complete", 100 * PercentDen)
                  EXCEPT !.pc = "resolved"]
       /\ last' = [op |-> "encodeSettles", outcome |-> outcome]
  /\ UNCHANGED <<project, nextId, timeline, fileImport>>

NextConvert ==
  \/ ConvertStart
  \/ ParseSettles
  \/ RenderProgress
  \/ RenderSettles
  \/ EncodeProgress
  \/ EncodeSettles

SpecConvert == InitConvert /\ [][NextConvert]_vars

\* ----------------------------------------------------------- the properties

\* The positions of the keyframes of one (layerId, property, time) triple.
TripleHits(keyframes, layerId, property, time) ==
  {i \in 1..Len(keyframes) :
     /\ keyframes[i].layerId = layerId
     /\ keyframes[i].property = property
     /\ keyframes[i].time = time}

\* C1: after two or more addKeyframe(L, P, v_i) calls in a row at one current
\* time t, the keyframe list holds exactly one keyframe for (L, P, t), and its
\* value is the last v_i.
C1_OneKeyframeWithLatestValue ==
  (last.op = "addKeyframe" /\ last.run >= 2) =>
    LET hits == TripleHits(project.keyframes, last.layerId, last.property,
                           project.currentTime)
    IN /\ Cardinality(hits) = 1
       /\ \A i \in hits : project.keyframes[i].value = last.value

\* C2: no two keyframes of the project share (layerId, property, time).
C2_UniqueTriple ==
  \A i, j \in 1..Len(project.keyframes) :
    (/\ project.keyframes[i].layerId = project.keyframes[j].layerId
     /\ project.keyframes[i].property = project.keyframes[j].property
     /\ project.keyframes[i].time = project.keyframes[j].time) => i = j

\* Whether keyframe kf belongs to the query (layerId, property).
Wanted(kf, layerId, property) ==
  kf.layerId = layerId /\ (property = Undefined \/ kf.property = property)

\* C3: getKeyframesForLayer(L, P?) returns exactly the keyframes of layer L
\* (of property P when given), each once, by ascending time; nothing for a
\* layer without keyframes; and the project is what it was before the call.
C3_QueryFilteredSortedPure ==
  last.op = "getKeyframesForLayer" =>
    LET r == last.result
        all == project.keyframes
        wanted == {i \in 1..Len(all) : Wanted(all[i], last.layerId, last.property)}
    IN /\ Len(r) = Cardinality(wanted)
       /\ \A i \in wanted : \E k \in 1..Len(r) : r[k] = all[i]
       /\ \A k \in 1..Len(r) : \E i \in wanted : r[k] = all[i]
       /\ \A k, m \in 1..Len(r) : k < m => r[k].time <= r[m].time
       /\ project = last.before

C3_Witness ==
  /\ last.op = "getKeyframesForLayer"
  /\ Len(last.result) >= 2
  /\ \E i, j \in 1..Len(project.keyframes) :
       /\ i < j
       /\ Wanted(project.keyframes[i], last.layerId, last.property)
       /\ Wanted(project.keyframes[j], last.layerId, last.property)
       /\ project.keyframes[i].time > project.keyframes[j].time

\* What deleteKeyframe(id) may do to the keyframes old, giving new.
DeletePost(old, new, id) ==
  LET at == {k \in 1..Len(old) : old[k].id = id}
  IN IF at = {} THEN new = old
     ELSE \E k \in at : new = SubSeq(old, 1, k - 1) \o SubSeq(old, k + 1, Len(old))

\* What updateKeyframe(id, updates) may do to the keyframes old, giving new.
UpdatePost(old, new, id, updates) ==
  LET at == {k \in 1..Len(old) : old[k].id = id}
  IN /\ Len(new) = Len(old)
     /\ Cardinality(at) <= 1
     /\ \A k \in 1..Len(old) :
          IF k \in at
          THEN /\ DOMAIN new[k] = DOMAIN old[k]
               /\ \A f \in DOMAIN updates : new[k][f] = updates[f]
               /\ \A f \in DOMAIN old[k] \ DOMAIN updates : new[k][f] = old[k][f]
          ELSE new[k] = old[k]

\* C4: deleteKeyframe and updateKeyframe with an identifier no keyframe has
\* change nothing; with an existing identifier, deleteKeyframe removes that
\* keyframe alone and updateKeyframe changes the given fields of that keyframe
\* alone, the others keeping their values and their order.
C4_DeleteUpdateOnlyThatKeyframe ==
  [][/\ last'.op = "deleteKeyframe" =>
          DeletePost(project.keyframes, project'.keyframes, last'.keyframeId)
     /\ last'.op = "updateKeyframe" =>
          UpdatePost(project.keyframes, project'.keyframes, last'.keyframeId,
                     last'.updates)]_vars

C4_Witness ==
  /\ last.op = "updateKeyframe"
  /\ last.hit
  /\ Len(project.keyframes) >= 2
  /\ \E i \in 1..Len(project.keyframes) :
       /\ project.keyframes[i].id = last.keyframeId
       /\ project.keyframes[i].property = "y"
       /\ last.updates = [property |-> "y"]

\* C6, as the specification states it: the keyframe that replaces another at
\* the same (layer, property, time) does not carry the replaced identifier.
C6_ReplaceDropsId ==
  (last.op = "addKeyframe" /\ last.existingIndex > 0) =>
    project.keyframes[last.existingIndex].id # last.replacedId

\* C6, amended: the keyframe that replaces another keeps the replaced
\* keyframe's identifier, and the identifier generated for it is not used.
C6_ReplaceKeepsId ==
  (last.op = "addKeyframe" /\ last.existingIndex > 0) =>
    /\ project.keyframes[last.existingIndex].id = last.replacedId
    /\ \A i \in 1..Len(project.keyframes) : project.keyframes[i].id # last.newId

C6_Witness ==
  /\ last.op = "addKeyframe"
  /\ last.existingIndex > 0
  /\ last.replacedId # last.newId

\* An export has just been made of the project; Exported is its document.
HasExported == last.op = "exportToLottie"

Exported == last.result

\* The keyframes of the project whose layerId is the id of its i-th layer.
OwnKeyframes(i) ==
  SelectSeq(project.keyframes, LAMBDA kf : kf.layerId = project.layers[i].id)

\* C7: the exported document has fr = fps, ip = 0, op = the least whole number
\* of frames not below duration * fps, w = width, h = height, nm = name, and
\* every exported layer has ip = 0, st = 0 and the document's op.
C7_HeaderFromProject ==
  HasExported =>
    /\ Exported.fr = project.fps
    /\ Exported.ip = 0
    /\ Exported.op * TimeDen >= project.duration * project.fps
    /\ (Exported.op - 1) * TimeDen < project.duration * project.fps
    /\ Exported.w = project.width
    /\ Exported.h = project.height
    /\ Exported.nm = project.name
    /\ \A i \in 1..Len(Exported.layers) :
         /\ Exported.layers[i].ip = 0
         /\ Exported.layers[i].st = 0
         /\ Exported.layers[i].op = Exported.op

\* An export of a project whose duration * fps is not whole and is below half
\* past a frame.
C7_Witness ==
  /\ HasExported
  /\ Len(Exported.layers) >= 2
  /\ (project.duration * project.fps) % TimeDen # 0
  /\ 2 * ((project.duration * project.fps) % TimeDen) < TimeDen

\* C8: the exported document has one layer of ty 4 per layer of the project,
\* in the project's order, with the layer's name and ind = its position counted
\* from 1, and the transform of each is the one exported when every keyframe
\* of the other layers is taken out of the project.
C8_OneLayerPerLayerOwnKeyframes ==
  HasExported =>
    /\ Len(Exported.layers) = Len(project.layers)
    /\ \A i \in 1..Len(project.layers) :
         /\ Exported.layers[i].ty = 4
         /\ Exported.layers[i].nm = project.layers[i].name
         /\ Exported.layers[i].ind = i
         /\ Exported.layers[i].ks =
              exportToLottie([project EXCEPT !.keyframes = OwnKeyframes(i)]).layers[i].ks

\* An export of a project in which both layers have a keyframe of the same
\* property.
C8_Witness ==
  /\ HasExported
  /\ \E m, n \in 1..Len(project.keyframes) :
       /\ project.keyframes[m].layerId = "layer1"
       /\ project.keyframes[n].layerId = "layer2"
       /\ project.keyframes[m].property = project.keyframes[n].property

\* The n-th least of the times.
NthTime(times, n) == CHOOSE t \in times : Cardinality({u \in times : u < t}) = n - 1

\* The keyframes (by position in keyframes) of a property at a time.
KeyframesAt(keyframes, property, time) ==
  {n \in 1..Len(keyframes) :
     keyframes[n].property = property /\ keyframes[n].time = time}

\* The times of the keyframes of either of two properties.
TimesOfEither(keyframes, xProp, yProp) ==
  {keyframes[n].time :
     n \in {m \in 1..Len(keyframes) : keyframes[m].property \in {xProp, yProp}}}

\* The value of an axis at a time: that of its first keyframe at exactly that
\* time, the static value when it has none there.
AxisValueAt(keyframes, property, time, static) ==
  LET at == KeyframesAt(keyframes, property, time)
  IN IF at = {} THEN static
     ELSE keyframes[CHOOSE n \in at : \A m \in at : n <= m].value.n

\* The combined property prop of two axes: static with the two static values
\* when neither axis has keyframes, else one entry per distinct time of either
\* axis, ascending, each axis's value taken at exactly that time.
CombinedByTimeUnion(prop, keyframes, xProp, yProp, staticX, staticY, factor) ==
  LET times == TimesOfEither(keyframes, xProp, yProp)
  IN IF times = {}
     THEN prop.a = 0 /\ prop.k = <<staticX * factor, staticY * factor>>
     ELSE /\ prop.a = 1
          /\ Len(prop.k) = Cardinality(times)
          /\ \A j \in 1..Len(prop.k) :
               prop.k[j].s =
                 << factor * AxisValueAt(keyframes, xProp, NthTime(times, j), staticX),
                    factor * AxisValueAt(keyframes, yProp, NthTime(times, j), staticY) >>

\* C9: the exported position of every layer, and its scale with the values
\* multiplied by 100, is static with the two static transform values when
\* neither axis has keyframes, and otherwise has one entry per distinct
\* keyframe time of either axis, ascending, where each axis's value is its
\* keyframe's value at exactly that time or else its static transform value.
C9_PositionScaleByTimeUnion ==
  HasExported =>
    \A i \in 1..Len(project.layers) :
      LET transform == project.layers[i].element.transform
      IN /\ CombinedByTimeUnion(Exported.layers[i].ks.p, OwnKeyframes(i), "x", "y",
                                transform.x, transform.y, 1)
         /\ CombinedByTimeUnion(Exported.layers[i].ks.s, OwnKeyframes(i),
                                "scaleX", "scaleY",
                                transform.scaleX, transform.scaleY, 100)

\* An export of a project whose first layer has an x keyframe at a later time
\* listed before a y keyframe at an earlier time: two entries, each with one
\* axis falling back to its static value, in the order opposite to the list's.
C9_Witness ==
  /\ HasExported
  /\ Len(project.keyframes) = 2
  /\ project.keyframes[1].layerId = "layer1"
  /\ project.keyframes[2].layerId = "layer1"
  /\ project.keyframes[1].property = "x"
  /\ project.keyframes[2].property = "y"
  /\ project.keyframes[1].time > project.keyframes[2].time
  /\ Len(Exported.layers[1].ks.p.k) = 2

\* t is Math.round(time * fps): the whole number nearest to it, the greater of
\* the two when it is half way.
IsRoundedFrame(t, time, fps) ==
  /\ 2 * (t * TimeDen - time * fps) <= TimeDen
  /\ 2 * (t * TimeDen - time * fps) > -TimeDen

\* The keyframes of a property, in the order of the list.
KeyframesOf(keyframes, property) ==
  SelectSeq(keyframes, LAMBDA kf : kf.property = property)

\* Every entry of a property exported from one keyframe each, in list order,
\* has the rounded frame of its keyframe.
FramesOfEach(prop, keyframes) ==
  Len(keyframes) > 0 =>
    /\ Len(prop.k) = Len(keyframes)
    /\ \A j \in 1..Len(keyframes) :
         IsRoundedFrame(prop.k[j].t, keyframes[j].time, project.fps)

\* Every entry of a property combined from two axes has the rounded frame of
\* its time.
FramesOfUnion(prop, times) ==
  times # {} =>
    /\ Len(prop.k) = Cardinality(times)
    /\ \A j \in 1..Cardinality(times) :
         IsRoundedFrame(prop.k[j].t, NthTime(times, j), project.fps)

\* C10: every entry exported for position, scale, rotation and opacity has
\* t = round(time * fps), time being the time of the keyframes it was made
\* from.
C10_FrameIsRoundedTime ==
  HasExported =>
    \A i \in 1..Len(project.layers) :
      LET ks == Exported.layers[i].ks
          own == OwnKeyframes(i)
      IN /\ FramesOfUnion(ks.p, TimesOfEither(own, "x", "y"))
         /\ FramesOfUnion(ks.s, TimesOfEither(own, "scaleX", "scaleY"))
         /\ FramesOfEach(ks.r, KeyframesOf(own, "rotation"))
         /\ FramesOfEach(ks.o, KeyframesOf(own, "opacity"))

\* An export with a rotation keyframe whose time * fps is half way between two
\* frames, exported at the later one, and a position keyframe at a time whose
\* product is whole.
C10_Witness ==
  /\ HasExported
  /\ \E m, n \in 1..Len(project.keyframes) :
       /\ project.keyframes[m].layerId = "layer1"
       /\ project.keyframes[m].property = "rotation"
       /\ 2 * ((project.keyframes[m].time * project.fps) % TimeDen) = TimeDen
       /\ Exported.layers[1].ks.r.k[1].t * TimeDen
            > project.keyframes[m].time * project.fps
       /\ project.keyframes[n].layerId = "layer1"
       /\ project.keyframes[n].property = "x"
       /\ project.keyframes[n].time > 0

\* C5: in every state reached through the store's actions and the Timeline's
\* handlers, 0 <= project.currentTime <= project.duration.
C5_CurrentTimeWithinDuration ==
  /\ 0 <= project.currentTime
  /\ project.currentTime <= project.duration

\* The static opacity of the i-th layer: style.opacity, 1 when it has none.
StaticOpacity(i) ==
  LET style == project.layers[i].element.style
  IN IF "opacity" \in DOMAIN style THEN style.opacity ELSE 1

\* C11: a layer without opacity keyframes exports the static ks.o.k =
\* opacity * 100 (100 when the style has no opacity); each opacity keyframe of
\* value v exports start and end value v * 100; each rotation keyframe
\* exports its value unchanged.
C11_OpacityAsPercentage ==
  HasExported =>
    \A i \in 1..Len(project.layers) :
      LET ks == Exported.layers[i].ks
          opacityKfs == KeyframesOf(OwnKeyframes(i), "opacity")
          rotationKfs == KeyframesOf(OwnKeyframes(i), "rotation")
      IN /\ IF Len(opacityKfs) = 0
            THEN ks.o.a = 0 /\ ks.o.k = StaticOpacity(i) * 100
            ELSE /\ ks.o.a = 1
                 /\ Len(ks.o.k) = Len(opacityKfs)
                 /\ \A j \in 1..Len(opacityKfs) :
                      /\ ks.o.k[j].s = <<opacityKfs[j].value.n * 100>>
                      /\ ks.o.k[j].e = <<opacityKfs[j].value.n * 100>>
         /\ Len(rotationKfs) > 0 =>
              /\ ks.r.a = 1
              /\ Len(ks.r.k) = Len(rotationKfs)
              /\ \A j \in 1..Len(rotationKfs) :
                   /\ ks.r.k[j].s = <<rotationKfs[j].value.n>>
                   /\ ks.r.k[j].e = <<rotationKfs[j].value.n>>

\* An export of a project whose first layer has an opacity keyframe of value 1
\* and a rotation keyframe, the second layer (whose style has no opacity)
\* exporting the static 100.
C11_Witness ==
  /\ HasExported
  /\ Len(project.keyframes) = 2
  /\ project.keyframes[1].layerId = "layer1"
  /\ project.keyframes[1].property = "opacity"
  /\ project.keyframes[1].value.n = 1
  /\ project.keyframes[2].layerId = "layer1"
  /\ project.keyframes[2].property = "rotation"
  /\ Exported.layers[1].ks.o.k[1].s = <<100>>
  /\ Exported.layers[2].ks.o.k = 100

\* The opacity values the exported layer emits: the static one, or the start
\* and end values of its entries.
EmittedOpacities(o) ==
  IF o.a = 0 THEN {o.k}
  ELSE UNION {{o.k[j].s[1], o.k[j].e[1]} : j \in 1..Len(o.k)}

\* C12: every opacity value the exporter emits, static or animated, lies in
\* [0, 100].
C12_OpacityWithinPercent ==
  HasExported =>
    \A i \in 1..Len(Exported.layers) :
      \A v \in EmittedOpacities(Exported.layers[i].ks.o) : 0 <= v /\ v <= 100

\* The entry of a colour: present exactly when the style has the colour and
\* it is not "none".
HasColour(style, field) == field \in DOMAIN style /\ style[field] # "none"

\* The geometry primitive of an element, as the property states it.
IsGeometryOf(item, element) ==
  IF element.type = "rect"
  THEN /\ item.ty = "rc"
       /\ item.p.k = <<Frac(2 * element.x + element.width, 2),
                       Frac(2 * element.y + element.height, 2)>>
       /\ item.s.k = <<element.width, element.height>>
  ELSE IF element.type = "circle"
  THEN item.ty = "el" /\ item.s.k = <<2 * element.r, 2 * element.r>>
  ELSE IF element.type = "ellipse"
  THEN item.ty = "el" /\ item.s.k = <<2 * element.rx, 2 * element.ry>>
  ELSE item.ty \in {"rc", "el", "sh"}

\* The closing transform of a group is the identity.
IsIdentityTransform(item) ==
  /\ item.ty = "tr"
  /\ item.p.k = <<0, 0>>
  /\ item.a.k = <<0, 0>>
  /\ item.s.k = <<100, 100>>
  /\ item.r.k = 0
  /\ item.o.k = 100

\* C13: for every layer, of every element variant, the exported shapes are one
\* group whose items are, in order, one geometry primitive, a fill exactly
\* when style.fill is set and not "none", a stroke exactly when style.stroke
\* is set and not "none", and an identity transform; np is the number of items
\* minus one.
C13_GroupOfGeometryFillStrokeTransform ==
  HasExported =>
    \A i \in 1..Len(project.layers) :
      LET element == project.layers[i].element
          shapes == Exported.layers[i].shapes
          it == shapes[1].it
          fills == IF HasColour(element.style, "fill") THEN 1 ELSE 0
          strokes == IF HasColour(element.style, "stroke") THEN 1 ELSE 0
      IN /\ Len(shapes) = 1
         /\ shapes[1].ty = "gr"
         /\ Len(it) = 1 + fills + strokes + 1
         /\ IsGeometryOf(it[1], element)
         /\ fills = 1 => it[2].ty = "fl"
         /\ strokes = 1 => it[2 + fills].ty = "st"
         /\ IsIdentityTransform(it[Len(it)])
         /\ shapes[1].np = Len(it) - 1

HasPositionX == last.op = "setPositionX"

\* The keyframes of x of the first layer, in the order of their times and,
\* at one time, of the list.
XKeyframes ==
  LET own == {i \in 1..Len(project.keyframes) :
                /\ project.keyframes[i].layerId = "layer1"
                /\ project.keyframes[i].property = "x"}
      Before(i, j) ==
        \/ project.keyframes[i].time < project.keyframes[j].time
        \/ project.keyframes[i].time = project.keyframes[j].time /\ i < j
  IN [n \in 1..Cardinality(own) |->
        project.keyframes[CHOOSE i \in own :
                            Cardinality({j \in own : Before(j, i)}) = n - 1]]

\* The fraction equals the whole number n.
IsWhole(fraction, n) == fraction.num = n * fraction.den

\* C15: with keyframes, the value at a time at or before the first keyframe's
\* is the first keyframe's value and at or after the last keyframe's is the
\* last keyframe's value; the editor shows the static transform value exactly
\* when there are no keyframes.
C15_ClampedAtEndsStaticWhenEmpty ==
  HasPositionX =>
    LET K == XKeyframes
        t == project.currentTime
    IN /\ last.interpolated <=> Len(K) > 0
       /\ Len(K) = 0 => IsWhole(last.positionX, project.layers[1].element.transform.x)
       /\ Len(K) > 0 /\ t <= K[1].time => IsWhole(last.positionX, K[1].value.n)
       /\ Len(K) > 0 /\ t >= K[Len(K)].time
            /\ (t > K[1].time \/ Len(K) = 1)
            => IsWhole(last.positionX, K[Len(K)].value.n)

\* The editor shows the value of two keyframes of different values at a time
\* after the last one's.
C15_Witness ==
  /\ HasPositionX
  /\ Len(XKeyframes) = 2
  /\ XKeyframes[1].value.n # XKeyframes[2].value.n
  /\ XKeyframes[1].easing = "linear"
  /\ XKeyframes[1].time < XKeyframes[2].time
  /\ project.currentTime > XKeyframes[2].time
  /\ IsWhole(last.positionX, XKeyframes[2].value.n)

\* C16: at a time strictly between two adjacent keyframes k0 and k1 the value
\* follows k0's easing: linear gives k0.value + (k1.value - k0.value) *
\* (t - k0.time) / (k1.time - k0.time), hold gives k0.value; and at k1's time
\* the value is k1.value.
C16_LinearAndHoldBetween ==
  HasPositionX =>
    LET K == XKeyframes
        t == project.currentTime
    IN \A i \in 1..(Len(K) - 1) :
         LET k0 == K[i]
             k1 == K[i + 1]
         IN /\ k0.time < t /\ t < k1.time /\ k0.easing = "linear" =>
                 last.positionX.num * (k1.time - k0.time) =
                   last.positionX.den *
                     (k0.value.n * (k1.time - k0.time)
                        + (k1.value.n - k0.value.n) * (t - k0.time))
            /\ k0.time < t /\ t < k1.time /\ k0.easing = "hold" =>
                 IsWhole(last.positionX, k0.value.n)
            /\ k0.time < k1.time /\ t = k1.time /\ i + 1 = Len(K) =>
                 IsWhole(last.positionX, k1.value.n)

\* The editor shows 100 at 1 s for the keyframes 0 at 0 s, linear, and 200 at
\* 2 s, hold.
C16_Witness ==
  /\ HasPositionX
  /\ Len(XKeyframes) = 2
  /\ XKeyframes[1].time = 0 /\ XKeyframes[1].value.n = 0
  /\ XKeyframes[1].easing = "linear"
  /\ XKeyframes[2].time = 2 * TimeDen /\ XKeyframes[2].value.n = 200
  /\ XKeyframes[2].easing = "hold"
  /\ project.currentTime = TimeDen
  /\ IsWhole(last.positionX, 100)

\* What each call but tick does to the engine, from the engine before and
\* after the step that made it.
TransitionOf(op, before, after) ==
  /\ op = "play" =>
       after.state = "playing" /\ after.currentTime = before.currentTime
  /\ op = "pause" =>
       /\ after.currentTime = before.currentTime
       /\ after.state = (IF before.state = "playing" THEN "paused" ELSE before.state)
  /\ op = "stop" => after.state = "stopped" /\ after.currentTime = 0
  /\ op = "seek" =>
       /\ after.state = before.state
       /\ after.currentTime =
            (IF last'.time < 0 THEN 0
             ELSE IF last'.time > before.duration THEN before.duration
             ELSE last'.time)
  /\ before.state = "paused" /\ op \notin {"seek", "stop"} =>
       after.currentTime = before.currentTime

\* C17: the engine starts stopped at time 0; play() gives playing and keeps
\* the time; pause() changes the state only of a playing engine, to paused,
\* and the time of a paused engine stays; stop() gives stopped at time 0;
\* seek(t) sets the time to t clamped to [0, duration] and keeps the state.
C17_ControllerTransitions ==
  /\ engine.state = "stopped" /\ engine.currentTime = 0
  /\ [][TransitionOf(last'.op, engine, engine')]_vars

\* A paused engine past time 0, sought beyond the duration.
C17_Witness ==
  /\ last.op = "seek"
  /\ last.time > engine.duration
  /\ engine.state = "paused"
  /\ engine.currentTime = engine.duration

\* What a tick does: the reported time is a whole number of frames within
\* [0, duration]; without loop, a tick that reaches the duration leaves the
\* playing state with the time at the duration, and any other keeps playing;
\* with loop the engine keeps playing and a time that went back is at most
\* the elapsed time and half a frame from the start.
TickOf(before, after, elapsed, reported) ==
  /\ before.state = "playing"
  /\ reported = after.currentTime
  /\ (reported * before.fps) % TimeDen = 0
  /\ 0 <= reported /\ reported <= before.duration
  /\ ~before.loop /\ before.currentTime + elapsed >= before.duration =>
       after.state # "playing" /\ reported = before.duration
  /\ ~before.loop /\ after.state # "playing" => reported = before.duration
  /\ before.loop =>
       /\ after.state = "playing"
       /\ reported < before.currentTime =>
            2 * reported * before.fps <= 2 * elapsed * before.fps + TimeDen

\* C18: the time reported after every tick of a playing engine is a frame
\* boundary within [0, duration]; a tick that reaches the duration with loop
\* off leaves the playing state with the time at the last frame, not 0; with
\* loop on the time wraps to the start and the engine keeps playing.
C18_TicksOnFramesWithinDuration ==
  [][last'.op = "tick" => TickOf(engine, engine', last'.elapsed, last'.reported)]_vars

\* A tick without loop has ended the playback at the duration.
C18_Witness ==
  /\ last.op = "tick"
  /\ ~engine.loop
  /\ engine.state # "playing"
  /\ last.reported = engine.duration
  /\ last.reported > 0

StoreSetters ==
  {"updateProjectSettings", "setCurrentTime", "setIsPlaying",
   "toggleLayerVisibility", "toggleLayerLock", "selectLayer",
   "addKeyframe", "deleteKeyframe", "updateKeyframe"}

\* C20: every store action called while the project is null leaves the
\* project null, and getKeyframesForLayer called then returns the empty
\* sequence.
C20_NullProjectStaysNull ==
  /\ last.op \in StoreSetters => project = Null
  /\ last.op = "getKeyframesForLayer" =>
       /\ project = Null
       /\ last.result = <<>>

\* getKeyframesForLayer was called right after addKeyframe, both with no
\* project.
C20_Witness ==
  /\ project = Null
  /\ last.op = "getKeyframesForLayer"
  /\ last.after = "addKeyframe"
  /\ last.result = <<>>

\* C25: right after addKeyframe(L, P, v, e), whether it added or replaced,
\* getKeyframesForLayer(L, P) holds a keyframe at the current time with value
\* v and easing e, and the keyframe list grew by at most one.
C25_AddedKeyframeCarriesLayer ==
  [][last'.op = "addKeyframe" =>
       LET found == getKeyframesForLayer(project', last'.layerId, last'.property)
       IN /\ \E k \in 1..Len(found) :
               /\ found[k].time = project'.currentTime
               /\ found[k].value = last'.value
               /\ found[k].easing = last'.easing
          /\ Len(project'.keyframes) <= Len(project.keyframes) + 1]_vars

\* The frame indices of an exported property grow strictly along its entries;
\* a property that is not animated has no entries.
StrictlyIncreasingFrames(prop) ==
  prop.a = 1 =>
    \A j, m \in 1..Len(prop.k) : j < m => prop.k[j].t < prop.k[m].t

\* C29: when no two keyframes of the project share (layerId, property, time),
\* the frame indices t of every animated property the exporter emits (ks.p,
\* ks.s, ks.r, ks.o) are strictly increasing along its k array.
C29_FramesStrictlyIncreasing ==
  (HasExported /\ C2_UniqueTriple) =>
    \A i \in 1..Len(Exported.layers) :
      LET ks == Exported.layers[i].ks
      IN /\ StrictlyIncreasingFrames(ks.p)
         /\ StrictlyIncreasingFrames(ks.s)
         /\ StrictlyIncreasingFrames(ks.r)
         /\ StrictlyIncreasingFrames(ks.o)

\* C27: in every reachable state the project's isPlaying flag is true exactly
\* when the Timeline's current PlaybackEngine is playing.
C27_PlayFlagAgreesWithEngine ==
  project.isPlaying <=> engine.state = "playing"

\* The handlers of the Timeline that change the store and leave the engine
\* and what it is built from alone: only an effect can move the engine then.
StoreOnlyHandlers ==
  {"togglePlayback", "handleTrackClick", "timeout", "handleKeyframeClick"}

\* C26: the Timeline's effect seeks the engine only when the project is not
\* playing and the engine is more than 0.01 s away from the stored time; the
\* time a tick of the engine wrote into the store leaves the engine as the
\* tick left it, at the stored time.
C26_SeekOnlyWhenPausedAndApart ==
  [][/\ (last'.op \in StoreOnlyHandlers /\ engine'.currentTime # engine.currentTime) =>
          /\ ~project'.isPlaying
          /\ 100 * Abs(engine.currentTime - project'.currentTime) > TimeDen
     /\ last'.op = "tick" =>
          /\ \E elapsed \in ElapsedTimes, endState \in {"stopped", "paused"} :
               engine' = tick(engine, elapsed, endState)
          /\ engine'.currentTime = project'.currentTime]_vars

\* A tick has moved the time forward and the store holds the engine's time.
C26_Witness ==
  /\ last.op = "tick"
  /\ project.isPlaying
  /\ project.currentTime > 0
  /\ engine.currentTime = project.currentTime

\* The static value handleTrackClick reads for a property of a layer.
StaticValueOf(layerId, property) ==
  LET i == CHOOSE j \in 1..Len(project.layers) : project.layers[j].id = layerId
  IN Num(project.layers[i].element.transform[property])

\* C28: a click on a track at time c while the playhead is at o adds or
\* replaces the keyframe at c, not at o, with the layer's static value, and
\* schedules a restore; when a restore runs, the current time becomes the o
\* of its click, whatever set the time in between.
C28_ClickAddsAtClickedTimeAndRestores ==
  [][/\ last'.op = "handleTrackClick" =>
          /\ \E k \in 1..Len(project'.keyframes) :
               /\ project'.keyframes[k].time = last'.time
               /\ project'.keyframes[k].property = last'.property
               /\ project'.keyframes[k].value =
                    StaticValueOf(last'.layerId, last'.property)
          /\ Len(project'.keyframes) <= Len(project.keyframes) + 1
          /\ \A k \in 1..Len(project.keyframes) :
               project.keyframes[k].time # last'.time =>
                 project'.keyframes[k] = project.keyframes[k]
          /\ timers' = Append(timers, project.currentTime)
     /\ last'.op = "timeout" =>
          /\ project'.currentTime = Head(timers)
          /\ timers' = Tail(timers)]_vars

\* The restore of a click has run during playback, after the engine had moved
\* on: the keyframe of the click is elsewhere than the restored time.
C28_Witness ==
  /\ last.op = "timeout"
  /\ project.isPlaying
  /\ engine.currentTime # project.currentTime
  /\ \E k \in 1..Len(project.keyframes) :
       /\ project.keyframes[k].id = MaxIds
       /\ project.keyframes[k].time # project.currentTime

\* C21: a successful import into an existing project leaves the project that
\* was in the store when the import completed, with the imported layers
\* appended after its layers and nothing else changed.
C21_ImportAppendsToCurrentProject ==
  (last.op = "fileRead" /\ last.outcome = "imported" /\ last.before # Null) =>
    project = [last.before EXCEPT
                 !.layers = last.before.layers \o last.result.layers]

\* C22: an import whose file cannot be read, whose source is malformed or
\* whose source has no supported element ends with an error message, the
\* project as it was and isProcessing false; parseSVG gives a result with
\* success = false and an error text for a malformed source.
C22_FailedImportLeavesProject ==
  (last.op = "fileRead" /\ last.outcome # "imported") =>
    /\ project = last.before
    /\ fileImport.message.type = "error"
    /\ ~fileImport.isProcessing
    /\ last.outcome = "failed" =>
         /\ ~last.result.success
         /\ "error" \in DOMAIN last.result
         /\ last.result.layers = <<>>

\* An import of a source without a supported element has just failed, in a
\* project that has layers.
C22_Witness ==
  /\ last.op = "fileRead"
  /\ last.outcome = "empty"
  /\ project # Null
  /\ fileImport.message.text = "No elements found in SVG"
  /\ ~fileImport.isProcessing

\* The place of a phase in the order of the reports.
PhaseRank(phase) ==
  CASE phase = "parsing" -> 1 [] phase = "rendering" -> 2
    [] phase = "encoding" -> 3 [] phase = "complete" -> 4

\* C23: the progress reports of a conversion come in the order parsing,
\* rendering, encoding, complete, with percentages within 0..100 that never
\* decrease; 'complete' is reported at most once, with 100, and only after
\* the three stages have succeeded.
C23_ProgressOrderedAndMonotone ==
  LET reports == conversion.reports
  IN /\ \A j, m \in 1..Len(reports) :
          j < m => /\ PhaseRank(reports[j].phase) <= PhaseRank(reports[m].phase)
                   /\ reports[j].percentage <= reports[m].percentage
     /\ \A j \in 1..Len(reports) :
          /\ reports[j].percentage \in 0..(100 * PercentDen)
          /\ reports[j].phase = "complete" =>
               /\ j = Len(reports)
               /\ reports[j].percentage = 100 * PercentDen
               /\ conversion.pc = "resolved"
               /\ conversion.started = <<"parsing", "rendering", "encoding">>
               /\ conversion.error = NotFound
               /\ \A m \in 1..Len(reports) : reports[m].phase = "complete" => m = j
          /\ (j = 1) => reports[j].phase = "parsing" /\ reports[j].percentage = 0

\* A conversion has resolved after the renderer reported all of its frames
\* and the encoder reported some progress.
C23_Witness ==
  /\ conversion.pc = "resolved"
  /\ Len(conversion.reports) >= 6
  /\ \E j \in 1..Len(conversion.reports) :
       /\ conversion.reports[j].phase = "rendering"
       /\ conversion.reports[j].percentage = 70 * PercentDen
  /\ conversion.reports[Len(conversion.reports)].phase = "complete"

\* The stage whose failure the last step saw.
FailedStage ==
  CASE last.op = "convertStart" -> "parsing"
    [] last.op = "parseSettles" -> "parsing"
    [] last.op = "renderSettles" -> "rendering"
    [] last.op = "encodeSettles" -> "encoding"

\* C24: when the input file is missing or a stage throws, the conversion
\* rejects with a ConversionError whose phase is the stage that failed, no
\* stage after that one has been started, and no 'complete' report is made.
C24_RejectsWithFailedPhase ==
  /\ (last.op \in {"convertStart", "parseSettles", "renderSettles", "encodeSettles"}
        /\ last.outcome \in {"missing", "throws"}) =>
       /\ conversion.pc = "rejected"
       /\ conversion.error = [name |-> "ConversionError", phase |-> FailedStage]
       /\ last.outcome = "missing" => conversion.started = <<>>
       /\ last.outcome = "throws" =>
            conversion.started[Len(conversion.started)] = FailedStage
  /\ conversion.pc = "rejected" =>
       /\ last.outcome \in {"missing", "throws"}
       /\ \A j \in 1..Len(conversion.reports) :
            /\ conversion.reports[j].phase # "complete"
            /\ PhaseRank(conversion.reports[j].phase) <= PhaseRank(conversion.error.phase)

\* The renderer has thrown after reporting progress.
C24_Witness ==
  /\ conversion.pc = "rejected"
  /\ conversion.error.phase = "rendering"
  /\ Len(conversion.reports) >= 3
  /\ conversion.started = <<"parsing", "rendering">>

\* C30: when the config gives no output, the path handed to the encoder is
\* not the input path.
C30_OutputDiffersFromInput ==
  ("encoding" \in {conversion.started[j] : j \in 1..Len(conversion.started)}
     /\ "output" \notin DOMAIN conversion.config) =>
    conversion.outputPath # conversion.config.input

====
